---- MODULE Spec2Model ----
(***************************************************************************)
(* Multi-track recording core of podcast-recorder:                         *)
(*   src/src/renderer/lib/audio-recorder.ts                                *)
(* Each TrackRecorder wraps one MediaRecorder and owns a chunks array.     *)
(* startRecording / pauseRecording / resumeRecording / stopRecording act   *)
(* on a list of recorders.  The MediaRecorder delivers data on its own     *)
(* schedule and completes stop() asynchronously: stop() makes the recorder *)
(* inactive at once and queues a task that delivers the final data and     *)
(* then fires the stop event.  The MediaRecorder is Chrome's (the renderer *)
(* of the Electron application): it refuses to start on a stream without a *)
(* live track, it stops on its own when the tracks of its stream end or    *)
(* its encoder fails, and it goes on delivering data while it is paused    *)
(* and while a stop is pending.                                            *)
(***************************************************************************)
EXTENDS Integers, Sequences, FiniteSets, TLC

VARIABLES
    state,        \* r -> mediaRecorder.state: "inactive" | "recording" | "paused"
    chunks,       \* r -> the recorder's chunks array (a sequence of blobs)
    onstop,       \* r -> the stopRecording invocation whose onstop handler is installed, 0 = none
    stopQueued,   \* r -> number of queued stop tasks (final data + stop event) of the MediaRecorder
    hung,         \* r -> the encoder of r is wedged: its queued stop task never runs
    failed,       \* r -> the encoder of r raised an error event while flushing
    delivered,    \* r -> history: size of every dataavailable event delivered, in order
    tracks,       \* r -> the tracks of r's stream: "live" | "none" | "ended", and
                  \* "ending" while the recorder has yet to learn that they ended
    screen,       \* the recording screen: "recording" (its buttons are shown) |
                  \* "saving" (isSaving) | "finished" (onFinished was called) |
                  \* "thrown" (its mount effect has thrown)
    starts,       \* r -> history: how often start() has put r in state recording
    restarted,    \* r -> history: start() has done so after a stopRecording call took r
    nInv,         \* number of stopRecording invocations so far
    recs,         \* p -> the recorders list passed to invocation p
    remaining,    \* p -> the invocation's remaining counter
    results,      \* p -> the invocation's results map (peerId -> blob)
    resolved,     \* p -> the invocation's promise is resolved
    fired,        \* p -> history: recorders whose stop event ran p's handler, in order
    issued,       \* p -> history: recorders on which p called stop()
    resolvedAt,   \* p -> history: invocations already resolved when p was invoked
    \* EditorScreen, handleRemoveDeadAir
    playlistRef,        \* playlistRef.current is set (the playlist has been created)
    trackFiles,         \* the session's track files, in order: a decodable buffer or Corrupt
    daOptions,          \* the options handed to detectDeadAirAcrossTracks
    daPc,               \* handler: "idle" | "decoding" | "selected" | "trimmed" | "done" |
                        \* "failed"; a direct call of the library: "call" | "returned"
    buffers,            \* the AudioBuffers decoded so far
    deadAirRegions,     \* the result of detectDeadAirAcrossTracks
    sortedRegions,      \* the regions still to trim, latest first
    calls,              \* history: what the handler has told the playlist, in order:
                        \* <<"select", start, end>> and <<"trim">>
    cutClicks,          \* history: number of 'trim' events emitted by Cut Selection
    bleeps,             \* number of Bleep tracks loaded into the playlist
    alertMsg,           \* the last alert shown: "" | "none" | "removed" | "failed"
    processingDeadAir,  \* the processingDeadAir flag of the screen
    \* export-mix handler and exportMix
    exportArgs,         \* the arguments of the export-mix call: inputFiles, outputPath
    exportPc,           \* "idle" | "running" | "resolved" | "rejected"
    command,            \* the ffmpeg command built by exportMix, NoCommand if none
    outputWritten,      \* ffmpeg has written (part of) the output file
    \* RecordingScreen.handleStop after stopRecording has resolved: saving the tracks
    sessionName,        \* config.sessionName, a sequence of characters
    saveTracks,         \* the recorders in order: peerId, peerName, blob present, how the save goes
    savePc,             \* "idle" | "stopping" | "saving" | "written" | "rejected" |
                        \* "finished" | "caught" | "aborted"
    stopClicks,         \* how many times Stop has been pressed
    saveIdx,            \* number of recorders the saving loop has gone through
    savedFiles,         \* the savedFiles array of handleStop
    filesWritten,       \* the files writeFileSync has left on disk, whole or in part
    finishedWith,       \* the argument of onFinished
    \* audioBufferToWav
    wavBuffer,          \* the AudioBuffer to encode
    wavBytes,           \* the bytes of the ArrayBuffer returned
    wavPc,              \* "idle" | "done"
    \* detectSilence, window by window
    scanBuffer,         \* the buffer scanned
    scanOptions,        \* its options
    scanI,              \* the loop index i
    scanStart,          \* silenceStart: <<>> for null, <<t>> for the time t
    scanRegions,        \* silenceRegions so far
    scanReads,          \* history: the ranges <<i, end>> of channelData read, in order
    scanIter,           \* history: number of loop iterations run
    scanPc              \* "loop" | "done"

recorderVars == <<state, chunks, onstop, stopQueued, hung, failed, delivered, tracks,
                  screen, starts, restarted, nInv, recs, remaining, results, resolved,
                  fired, issued, resolvedAt>>

deadAirVars == <<playlistRef, trackFiles, daOptions, daPc, buffers, deadAirRegions,
                 sortedRegions, calls, cutClicks, bleeps, alertMsg,
                 processingDeadAir>>

exportVars == <<exportArgs, exportPc, command, outputWritten>>

saveVars == <<sessionName, saveTracks, savePc, stopClicks, saveIdx, savedFiles, filesWritten,
              finishedWith>>

wavVars == <<wavBuffer, wavBytes, wavPc>>

scanVars == <<scanBuffer, scanOptions, scanI, scanStart, scanRegions, scanReads, scanIter,
              scanPc>>

libVars == <<saveVars, wavVars, scanVars>>

editorVars == <<deadAirVars, exportVars, libVars>>

vars == <<recorderVars, editorVars>>

invVars == <<nInv, recs, remaining, results, resolved, fired, issued, resolvedAt>>

----------------------------------------------------------------------------
(* Bounds *)

NumRecorders == 2
MaxStops == 2
MaxData == 1
MaxStarts == 2
\* In a run: recorders started a second time, encoder errors, deliveries of
\* no bytes.
MaxRestarts == 1
MaxErrors == 1
MaxEmpty == 1

Recorders == 1..NumRecorders
Invocations == 1..MaxStops
ChunkSizes == {0, 2}

Range(s) == {s[i] : i \in DOMAIN s}

\* The session keeps its recorders in one array (recordersRef.current); the lists
\* an operation may be handed are the subsequences of it, the empty one included.
RECURSIVE SubSeqOf(_, _)
SubSeqOf(n, S) == IF n = 0 THEN <<>>
                  ELSE IF n \in S THEN Append(SubSeqOf(n - 1, S), n) ELSE SubSeqOf(n - 1, S)

Lists == {SubSeqOf(NumRecorders, S) : S \in SUBSET Recorders}

AllRecorders == [i \in 1..NumRecorders |-> i]

\* The first recorder records the host's filtered stream, the output of the
\* application's own audio graph; the others record the streams of the guests,
\* whose tracks may end while the session runs.
Guests == Recorders \ {1}

----------------------------------------------------------------------------
(* Blobs.  A byte is a pair <<delivery, offset>>, so that equal contents    *)
(* mean the same bytes in the same order.                                   *)

\* The blob e.data of the n-th dataavailable event of a recorder, size bytes long.
EventData(n, size) == [k \in 1..size |-> <<n, k>>]

\* blob.size
BlobSize(blob) == Len(blob)

RECURSIVE Concat(_)
Concat(parts) == IF parts = <<>> THEN <<>> ELSE Head(parts) \o Concat(Tail(parts))

\* new Blob(r.chunks, ...): the concatenation of the parts, in array order.
NewBlob(parts) == Concat(parts)

----------------------------------------------------------------------------
(* createTrackRecorder: a fresh MediaRecorder is inactive, chunks is empty  *)
(* and only ondataavailable is registered.                                  *)

\* The editor before any of its handlers has run, with no session loaded.
Corrupt == [ok |-> FALSE, buffer |-> [sampleRate |-> 0, data |-> <<>>]]
NoCommand == [inputs |-> <<>>, complexFilter |-> <<>>, outputOptions |-> <<>>,
              audioCodec |-> "", audioBitrate |-> "", audioChannels |-> 0,
              audioFrequency |-> 0, output |-> <<>>, run |-> FALSE]

DeadAirIdle ==
    /\ playlistRef = FALSE
    /\ trackFiles = <<>>
    /\ daOptions = [silenceThreshold |-> 0, minSilenceDuration |-> 0, padding |-> 0]
    /\ daPc = "idle"
    /\ buffers = <<>>
    /\ deadAirRegions = <<>>
    /\ sortedRegions = <<>>
    /\ calls = <<>>
    /\ cutClicks = 0
    /\ bleeps = 0
    /\ alertMsg = ""
    /\ processingDeadAir = FALSE

ExportIdle ==
    /\ exportArgs = [inputFiles |-> <<>>, outputPath |-> <<>>]
    /\ exportPc = "idle"
    /\ command = NoCommand
    /\ outputWritten = FALSE

SaveIdle ==
    /\ sessionName = <<>>
    /\ saveTracks = <<>>
    /\ savePc = "idle"
    /\ stopClicks = 0
    /\ saveIdx = 0
    /\ savedFiles = <<>>
    /\ filesWritten = <<>>
    /\ finishedWith = <<>>

WavIdle ==
    /\ wavBuffer = [sampleRate |-> 0, numberOfChannels |-> 0, length |-> 0, channels |-> <<>>]
    /\ wavBytes = <<>>
    /\ wavPc = "idle"

ScanIdle ==
    /\ scanBuffer = [sampleRate |-> 0, data |-> <<>>]
    /\ scanOptions = [silenceThreshold |-> 0, minSilenceDuration |-> 0, padding |-> 0]
    /\ scanI = 0
    /\ scanStart = <<>>
    /\ scanRegions = <<>>
    /\ scanReads = <<>>
    /\ scanIter = 0
    /\ scanPc = "done"

\* new MediaRecorder(stream, ...), const chunks = [], ondataavailable set.
createTrackRecorder ==
    /\ state = [r \in Recorders |-> "inactive"]
    /\ chunks = [r \in Recorders |-> <<>>]
    /\ onstop = [r \in Recorders |-> 0]
    /\ stopQueued = [r \in Recorders |-> 0]
    /\ hung = [r \in Recorders |-> FALSE]
    /\ failed = [r \in Recorders |-> FALSE]
    /\ delivered = [r \in Recorders |-> <<>>]
    /\ screen = "recording"
    /\ starts = [r \in Recorders |-> 0]
    /\ restarted = [r \in Recorders |-> FALSE]
    /\ nInv = 0
    /\ recs = [p \in Invocations |-> <<>>]
    /\ remaining = [p \in Invocations |-> 0]
    /\ results = [p \in Invocations |-> <<>>]
    /\ resolved = [p \in Invocations |-> FALSE]
    /\ fired = [p \in Invocations |-> <<>>]
    /\ issued = [p \in Invocations |-> {}]
    /\ resolvedAt = [p \in Invocations |-> {}]

\* The recorders while the editor, the export or the saving runs.
RecorderInit ==
    /\ createTrackRecorder
    /\ tracks = [r \in Recorders |-> "live"]

\* What the stream handed to createTrackRecorder holds: a live track or no
\* track at all; no stream is looked at before it is recorded.  A stream whose
\* tracks have ended before the recorder starts (a remote stream whose
\* connection has closed) is a live one whose tracks end first.
Streams == [Recorders -> {"live", "none"}]

Init ==
    /\ createTrackRecorder
    /\ tracks \in Streams
    /\ DeadAirIdle /\ ExportIdle /\ SaveIdle /\ WavIdle /\ ScanIdle

\* start() has put r in state recording.
started == [r \in Recorders |-> starts[r] > 0]

\* The RecordingState of the specification, read off the MediaRecorder.
Idle(r) == state[r] = "inactive" /\ ~started[r]
Stopped(r) == state[r] = "inactive" /\ started[r]

\* A handler that puts the new chunk in front: chunks.unshift(e.data)
ondataavailable_unshift(ch, data) ==
    IF BlobSize(data) > 0 THEN <<data>> \o ch ELSE ch

\* mediaRecorder.ondataavailable: if (e.data.size > 0) chunks.push(e.data)
ondataavailable(ch, data) ==
    IF BlobSize(data) > 0 THEN Append(ch, data) ELSE ch

\* The guard of the handler and of the else branch: if (remaining === 0) resolve(results)
ShouldResolve(rem) == rem = 0

----------------------------------------------------------------------------
(* startRecording: start(1000) on every recorder of the list, in order, with *)
(* no state test and no try/catch.  MediaRecorder.start() throws             *)
(* InvalidStateError unless the recorder is inactive, and NotSupportedError  *)
(* when the stream has no live track; the exception leaves the loop, so the  *)
(* recorders after the failing one are not reached.  On a stream whose       *)
(* tracks have all ended Chrome has set the state to recording by the time   *)
(* it throws.                                                                *)

\* MediaRecorder.start() throws on a recorder in this state with these tracks.
StartThrows(st, tr) == st # "inactive" \/ tr # "live"

\* The state a start() that throws leaves the recorder in.
StartFailure(st, tr) ==
    IF st = "inactive" /\ tr \in {"ended", "ending"} THEN "recording" ELSE st

\* Index of the first recorder of the list whose start() throws, 0 if none does.
ThrowIndex(l) ==
    IF \E i \in DOMAIN l : StartThrows(state[l[i]], tracks[l[i]])
    THEN CHOOSE i \in DOMAIN l :
            /\ StartThrows(state[l[i]], tracks[l[i]])
            /\ \A j \in 1..(i - 1) : ~StartThrows(state[l[j]], tracks[l[j]])
    ELSE 0

\* The recorders on which start() returns before the loop ends or throws.
StartedBy(l) ==
    LET t == ThrowIndex(l)
    IN  IF t = 0 THEN Range(l) ELSE {l[i] : i \in 1..(t - 1)}

\* The recorder whose start() throws, if it is left recording.
LeftRecording(l) ==
    LET t == ThrowIndex(l)
    IN  IF t # 0 /\ StartFailure(state[l[t]], tracks[l[t]]) # state[l[t]] THEN {l[t]} ELSE {}

startRecording(l) ==
    LET nowRecording == StartedBy(l) \cup LeftRecording(l)
    IN  /\ \A r \in nowRecording : starts[r] < MaxStarts
        /\ Cardinality({r \in Recorders :
                            starts[r] > 1 \/ (r \in nowRecording /\ starts[r] > 0)})
               <= MaxRestarts
        /\ state' = [r \in Recorders |-> IF r \in nowRecording THEN "recording" ELSE state[r]]
        /\ starts' = [r \in Recorders |-> IF r \in nowRecording THEN starts[r] + 1 ELSE starts[r]]
        /\ restarted' = [r \in Recorders |->
                            restarted[r] \/ (r \in nowRecording /\ onstop[r] # 0)]
        /\ UNCHANGED <<chunks, onstop, stopQueued, hung, failed, delivered, tracks>>
        /\ UNCHANGED <<invVars, editorVars>>

----------------------------------------------------------------------------
(* pauseRecording / resumeRecording: pause() on the recorders that are      *)
(* 'recording', resume() on those that are 'paused'.  MediaRecorder.pause() *)
(* and resume() throw InvalidStateError on an inactive recorder and change  *)
(* nothing but the state otherwise.                                         *)

\* A guard that lets pause() be called on every recorder that is not paused.
PauseGuard_notPaused(st) == st # "paused"

\* if (r.mediaRecorder.state === 'recording')
PauseGuard(st) == st = "recording"

\* if (r.mediaRecorder.state === 'paused')
ResumeGuard(st) == st = "paused"

\* MediaRecorder.pause() / resume() throw InvalidStateError in this state.
SuspendThrows(st) == st = "inactive"

\* The state MediaRecorder.pause() leaves a recorder in.
Pause(st) == IF st = "recording" THEN "paused" ELSE st

\* The state MediaRecorder.resume() leaves a recorder in.
Resume(st) == IF st = "paused" THEN "recording" ELSE st

\* The recorders that pass the guard of pauseRecording / resumeRecording.
PauseGuarded == {r \in Recorders : PauseGuard(state[r])}
ResumeGuarded == {r \in Recorders : ResumeGuard(state[r])}

\* Index of the first recorder of the list on which the guarded call throws, 0 if none.
GuardedThrowIndex(l, guarded) ==
    IF \E i \in DOMAIN l : l[i] \in guarded /\ SuspendThrows(state[l[i]])
    THEN CHOOSE i \in DOMAIN l :
            /\ l[i] \in guarded /\ SuspendThrows(state[l[i]])
            /\ \A j \in 1..(i - 1) : ~(l[j] \in guarded /\ SuspendThrows(state[l[j]]))
    ELSE 0

\* The recorders on which the guarded call is made and returns.
Called(l, guarded) ==
    LET t == GuardedThrowIndex(l, guarded)
    IN  {l[k] : k \in {i \in DOMAIN l : l[i] \in guarded /\ (t = 0 \/ i < t)}}

\* The recorder the guarded call throws at, 0 if the loop returns.
GuardedThrowsAt(l, guarded) ==
    IF GuardedThrowIndex(l, guarded) = 0 THEN 0 ELSE l[GuardedThrowIndex(l, guarded)]

pauseRecording(l) ==
    LET called == Called(l, PauseGuarded)
    IN  /\ state' = [r \in Recorders |-> IF r \in called THEN Pause(state[r]) ELSE state[r]]
        /\ UNCHANGED <<chunks, onstop, stopQueued, hung, failed, delivered, tracks, screen,
                       starts, restarted>>
        /\ UNCHANGED <<invVars, editorVars>>

resumeRecording(l) ==
    LET called == Called(l, ResumeGuarded)
    IN  /\ state' = [r \in Recorders |-> IF r \in called THEN Resume(state[r]) ELSE state[r]]
        /\ UNCHANGED <<chunks, onstop, stopQueued, hung, failed, delivered, tracks, screen,
                       starts, restarted>>
        /\ UNCHANGED <<invVars, editorVars>>

----------------------------------------------------------------------------
(* stopRecording: a new promise with its own results map and remaining      *)
(* counter.  For every recorder of the list, in order: install the onstop   *)
(* handler (replacing any handler installed before), then call stop() if    *)
(* the recorder is not inactive, else record its blob at once.  stop()      *)
(* makes the recorder inactive synchronously and queues the task that       *)
(* delivers the final data and fires the stop event.                        *)

\* if (r.mediaRecorder.state !== 'inactive')
NeedsStop(st) == st # "inactive"

\* MediaRecorder.stop() does nothing on an inactive recorder.
StopQueues(st) == st # "inactive"

stopRecording(l) ==
    LET p == nInv + 1
        toStop == {r \in Range(l) : NeedsStop(state[r])}
        already == Range(l) \ toStop
        rem == Len(l) - Cardinality(already)
    IN  /\ nInv < MaxStops
        /\ nInv' = p
        /\ recs' = [recs EXCEPT ![p] = l]
        /\ onstop' = [r \in Recorders |-> IF r \in Range(l) THEN p ELSE onstop[r]]
        /\ state' = [r \in Recorders |-> IF r \in toStop THEN "inactive" ELSE state[r]]
        /\ stopQueued' = [r \in Recorders |->
                            IF r \in toStop /\ StopQueues(state[r])
                            THEN stopQueued[r] + 1 ELSE stopQueued[r]]
        /\ results' = [results EXCEPT ![p] = [r \in already |-> NewBlob(chunks[r])]]
        /\ remaining' = [remaining EXCEPT ![p] = rem]
        /\ resolved' = [resolved EXCEPT ![p] =
                            \/ Len(l) = 0
                            \/ \E k \in 1..Cardinality(already) : ShouldResolve(Len(l) - k)]
        /\ issued' = [issued EXCEPT ![p] = toStop]
        /\ resolvedAt' = [resolvedAt EXCEPT ![p] = {q \in 1..nInv : resolved[q]}]
        /\ UNCHANGED <<chunks, hung, failed, delivered, tracks, starts, restarted,
                       fired, editorVars>>

----------------------------------------------------------------------------
(* The MediaRecorder's own steps.                                           *)

\* The recorder has a dataavailable event to fire that is not the final one
\* of a stop: it records, it is paused, or it is inactive with its stop pending.
Delivers(r) == state[r] # "inactive" \/ stopQueued[r] > 0

\* The empty deliveries made so far.
Empties ==
    {d \in UNION {{<<r, k>> : k \in DOMAIN delivered[r]} : r \in Recorders} :
        delivered[d[1]][d[2]] = 0}

\* A delivery of size bytes is within the bound on empty deliveries.
WithinEmpty(size) == size = 0 => Cardinality(Empties) < MaxEmpty

\* A timeslice elapses: dataavailable with size bytes.
DataAvailable(r, size) ==
    /\ Delivers(r)
    /\ WithinEmpty(size)
    /\ Len(delivered[r]) < MaxData
    /\ delivered' = [delivered EXCEPT ![r] = Append(@, size)]
    /\ chunks' = [chunks EXCEPT ![r] =
                    ondataavailable(@, EventData(Len(delivered[r]) + 1, size))]
    /\ UNCHANGED <<state, onstop, stopQueued, hung, failed, tracks, screen, starts,
                   restarted>>
    /\ UNCHANGED <<invVars, editorVars>>

\* The results map after p's onstop handler ran for r: results.set(r.peerId, blob)
onstopResults(res, r, ch) == (r :> NewBlob(ch)) @@ res

\* The queued stop task of r runs: the final dataavailable (size bytes, maybe
\* none), then the stop event, which runs the installed onstop handler.
FireStop(r, size) ==
    LET ch == ondataavailable(chunks[r], EventData(Len(delivered[r]) + 1, size))
        p == onstop[r]
    IN  /\ stopQueued[r] > 0
        /\ ~hung[r]
        /\ WithinEmpty(size)
        /\ stopQueued' = [stopQueued EXCEPT ![r] = @ - 1]
        /\ delivered' = [delivered EXCEPT ![r] = Append(@, size)]
        /\ chunks' = [chunks EXCEPT ![r] = ch]
        /\ IF p = 0
           THEN UNCHANGED <<results, remaining, resolved, fired>>
           ELSE /\ results' = [results EXCEPT ![p] = onstopResults(@, r, ch)]
                /\ remaining' = [remaining EXCEPT ![p] = @ - 1]
                /\ resolved' = [resolved EXCEPT ![p] = @ \/ ShouldResolve(remaining[p] - 1)]
                /\ fired' = [fired EXCEPT ![p] = Append(@, r)]
        /\ UNCHANGED <<state, onstop, hung, failed, tracks, screen, starts, restarted,
                       nInv, recs, issued, resolvedAt, editorVars>>

\* The encoder of r fails while r records or is paused: the recorder fires an
\* error event, to which no handler listens, and stops as after stop().
EncoderError(r) ==
    /\ state[r] # "inactive"
    /\ Cardinality({q \in Recorders : failed[q]}) < MaxErrors
    /\ failed' = [failed EXCEPT ![r] = TRUE]
    /\ state' = [state EXCEPT ![r] = "inactive"]
    /\ stopQueued' = [stopQueued EXCEPT ![r] = @ + 1]
    /\ UNCHANGED <<chunks, onstop, hung, delivered, tracks, screen, starts, restarted>>
    /\ UNCHANGED <<invVars, editorVars>>

\* The encoder of r wedges while it flushes: its stop task never runs.
EncoderHang(r) ==
    /\ stopQueued[r] > 0
    /\ ~hung[r]
    /\ hung' = [hung EXCEPT ![r] = TRUE]
    /\ UNCHANGED <<state, chunks, onstop, stopQueued, failed, delivered, tracks, screen,
                   starts, restarted>>
    /\ UNCHANGED <<invVars, editorVars>>

\* The tracks of r's stream end.  A recorder that records or is paused and is
\* told (track.stop() on the recorded stream) goes on as it is until the task
\* in which it learns of it; a recorder that is not told (the peer connection
\* of a remote stream is closed) never does.
TrackEnds(r, told) ==
    /\ tracks[r] = "live"
    /\ tracks' = [tracks EXCEPT ![r] =
                    IF told /\ state[r] # "inactive" THEN "ending" ELSE "ended"]
    /\ UNCHANGED <<state, chunks, onstop, stopQueued, hung, failed, delivered, screen,
                   starts, restarted>>
    /\ UNCHANGED <<invVars, editorVars>>

\* The recorder learns that all its tracks have ended: unless it is inactive
\* by then, it stops as after stop() although no stop() was called.
AllTracksEnded(r) ==
    LET stops == state[r] # "inactive"
    IN  /\ tracks[r] = "ending"
        /\ tracks' = [tracks EXCEPT ![r] = "ended"]
        /\ state' = [state EXCEPT ![r] = IF stops THEN "inactive" ELSE @]
        /\ stopQueued' = [stopQueued EXCEPT ![r] = IF stops THEN @ + 1 ELSE @]
        /\ UNCHANGED <<chunks, onstop, hung, failed, delivered, screen, starts, restarted>>
        /\ UNCHANGED <<invVars, editorVars>>

----------------------------------------------------------------------------
\* The library and the MediaRecorder, called in any order; screen is written
\* by the handlers of the recording screen alone.  A stop event that never
\* comes needs no step here: without fairness FireStop may stay away for ever.
Next ==
    \/ \E l \in Lists : startRecording(l) /\ UNCHANGED screen
    \/ \E l \in Lists : pauseRecording(l)
    \/ \E l \in Lists : resumeRecording(l)
    \/ \E l \in Lists : stopRecording(l) /\ UNCHANGED screen
    \/ \E r \in Recorders, size \in ChunkSizes : DataAvailable(r, size)
    \/ \E r \in Recorders, size \in ChunkSizes : FireStop(r, size)
    \/ \E r \in Recorders : EncoderError(r)
    \/ \E r \in Guests, told \in BOOLEAN : TrackEnds(r, told)
    \/ \E r \in Guests : AllTracksEnded(r)

Spec == Init /\ [][Next]_vars

(* The recording screen (RecordingScreen.tsx) hands every operation its     *)
(* whole recorder array, recordersRef.current: it starts the recorders once *)
(* when it mounts, offers Pause, Resume and Stop until Stop is pressed, and *)
(* hides them while isSaving.  SessionNext is that use of the module, with  *)
(* an encoder that may fail, or wedge while it flushes.  When               *)
(* startRecording throws in the mount effect no error boundary catches it:  *)
(* the screen is unmounted and none of its buttons is left.                 *)

\* The screen is mounted and its buttons are shown.
Mounted == (\E r \in Recorders : started[r]) /\ screen = "recording"

\* useEffect on mount: startRecording(recorders) on the fresh recorders.
SessionStart ==
    /\ \A r \in Recorders : Idle(r)
    /\ nInv = 0
    /\ screen = "recording"
    /\ startRecording(AllRecorders)
    /\ screen' = IF ThrowIndex(AllRecorders) # 0 THEN "thrown" ELSE "recording"

\* handlePause: pauseRecording(recordersRef.current)
handlePause ==
    /\ Mounted
    /\ pauseRecording(AllRecorders)

\* handleResume: resumeRecording(recordersRef.current)
handleResume ==
    /\ Mounted
    /\ resumeRecording(AllRecorders)

\* handleStop up to its first await: setIsSaving(true), then
\* await stopRecording(recordersRef.current)
handleStop ==
    /\ Mounted
    /\ stopRecording(AllRecorders)
    /\ screen' = "saving"

\* handleStop from the resolution of the promise on: the tracks are saved and
\* the room is left; then onFinished(savedFiles), or, when leaving the room,
\* stopping the local stream or cleaning up the noise filter throws, the outer
\* catch: alert and setIsSaving(false), after which Stop can be pressed again.
\* The save touches no recorder; its steps are those of SaveNextStep below.
StopReturns(tailThrows) ==
    /\ screen = "saving"
    /\ resolved[nInv]
    /\ screen' = IF tailThrows THEN "recording" ELSE "finished"
    /\ UNCHANGED <<state, chunks, onstop, stopQueued, hung, failed, delivered, tracks,
                   starts, restarted>>
    /\ UNCHANGED <<invVars, editorVars>>

SessionNext ==
    \/ SessionStart
    \/ handlePause
    \/ handleResume
    \/ handleStop
    \/ \E tailThrows \in BOOLEAN : StopReturns(tailThrows)
    \/ \E r \in Recorders, size \in ChunkSizes : DataAvailable(r, size)
    \/ \E r \in Recorders, size \in ChunkSizes : FireStop(r, size)
    \/ \E r \in Recorders : EncoderError(r)
    \/ \E r \in Recorders : EncoderHang(r)
    \/ \E r \in Guests, told \in BOOLEAN : TrackEnds(r, told)
    \/ \E r \in Guests : AllTracksEnded(r)

(* The event loop runs every queued stop task of an encoder that is not     *)
(* wedged, and the host does press Stop.                                    *)
FairSpec ==
    /\ Init
    /\ [][SessionNext]_vars
    /\ \A r \in Recorders : WF_vars(\E size \in ChunkSizes : FireStop(r, size))
    /\ WF_vars(handleStop)

----------------------------------------------------------------------------
(* Vocabulary of the claims.                                                *)

Invoked == 1..nInv

\* The stop event of r has run p's handler.
FiredFor(p, r) == r \in Range(fired[p])

\* stopRecording returns one map and nothing else: there is no error list.
ErrorList(p) == {}

\* The bytes of every delivery of r, in delivery order.
RECURSIVE DeliveredBytes(_, _)
DeliveredBytes(r, n) ==
    IF n = 0 THEN <<>> ELSE DeliveredBytes(r, n - 1) \o EventData(n, delivered[r][n])

RECURSIVE SumSizes(_)
SumSizes(sizes) == IF sizes = <<>> THEN 0 ELSE Head(sizes) + SumSizes(Tail(sizes))

\* Number of stopRecording invocations whose list holds r.
StopCalls(r) == Cardinality({p \in Invoked : r \in Range(recs[p])})

----------------------------------------------------------------------------
\* C1: stopRecording is a barrier: when its promise is resolved, every recorder
\* of its list on which it called stop() has had its stop event fire (the others
\* were already inactive), and the resolved map has an entry for every recorder.
C1_Barrier ==
    \A p \in Invoked : resolved[p] =>
        \A r \in Range(recs[p]) :
            /\ r \in DOMAIN results[p]
            /\ (r \in issued[p] => FiredFor(p, r))

\* C2: for a recorder driven through a valid sequence (started once, paused and
\* resumed any number of times, handed to one stopRecording call, never started
\* again), the blob in the map of the resolved promise holds exactly the bytes
\* of every delivery made before its stop completed, in delivery order, and its
\* size is the sum of the delivered sizes: the blob holds every delivery made
\* so far, and no data is delivered once the promise is resolved.
ValidRun(r) == starts[r] = 1 /\ ~restarted[r] /\ StopCalls(r) = 1

C2_NoChunkLost ==
    /\ [](\A p \in Invoked : \A r \in Range(recs[p]) :
            (resolved[p] /\ ValidRun(r)) =>
                /\ r \in DOMAIN results[p]
                /\ results[p][r] = DeliveredBytes(r, Len(delivered[r]))
                /\ BlobSize(results[p][r]) = SumSizes(delivered[r]))
    /\ [][\A p \in Invoked : \A r \in Range(recs[p]) :
            (resolved[p] /\ ValidRun(r)) =>
                SumSizes(delivered'[r]) = SumSizes(delivered[r])]_vars

\* C3: a stopRecording call made after the first call has returned, on the same
\* list and with no start in between, returns a map equal to the first one and
\* calls stop() on no recorder.
C3_Idempotent ==
    \A q \in Invoked :
        (/\ q > 1
         /\ 1 \in resolvedAt[q]
         /\ recs[q] = recs[1]
         /\ \A r \in Range(recs[1]) : ~restarted[r])
        => /\ resolved[q]
           /\ results[q] = results[1]
           /\ issued[q] = {}

\* C4: if the flush of a recorder never completes after stopRecording called
\* stop() on it, the promise is still eventually resolved and the track is
\* reported as failed.
C4_FlushTimeout ==
    \A p \in Invocations : \A r \in Recorders :
        (p \in Invoked /\ r \in issued[p] /\ hung[r] /\ ~FiredFor(p, r))
            ~> (resolved[p] /\ r \in ErrorList(p))

\* C5: when the flush of one recorder fails during stopRecording, the result
\* names that recorder in an error list.
C5_ErrorList ==
    \A p \in Invoked : resolved[p] =>
        \A r \in Range(recs[p]) : failed[r] => r \in ErrorList(p)

\* C6: startRecording starts every Idle recorder of its list whose own
\* start() does not fail, those after a recorder whose start() fails included.
C6_RestStillStart ==
    \A l \in Lists : \A r \in Range(l) :
        (Idle(r) /\ ~StartThrows(state[r], tracks[r])) => r \in StartedBy(l)

\* C7: start() takes effect only on a recorder that is Idle: a recorder that
\* was started before never goes from inactive to recording again.
C7_StartOnlyIdle ==
    [][\A r \in Recorders :
          (state[r] = "inactive" /\ state'[r] = "recording") => ~started[r]]_vars

\* C8: pauseRecording turns exactly the recording recorders of its list into
\* paused ones, resumeRecording exactly the paused ones into recording ones;
\* every other recorder keeps its state, no chunks array changes, and neither
\* call throws.
\* A step that is a call of pauseRecording or resumeRecording with an effect
\* changes a state and nothing of the invocations, and delivers no data.
CallStep ==
    /\ state' # state
    /\ nInv' = nInv /\ delivered' = delivered /\ starts' = starts
    /\ tracks' = tracks /\ stopQueued' = stopQueued

C8_PauseResumeFrame ==
    /\ [](\A l \in Lists : /\ GuardedThrowsAt(l, PauseGuarded) = 0
                           /\ GuardedThrowsAt(l, ResumeGuarded) = 0)
    /\ [][CallStep => \A l \in Lists :
          /\ pauseRecording(l) =>
                /\ chunks' = chunks
                /\ \A r \in Recorders :
                      state'[r] = IF r \in Range(l) /\ state[r] = "recording"
                                  THEN "paused" ELSE state[r]
          /\ resumeRecording(l) =>
                /\ chunks' = chunks
                /\ \A r \in Recorders :
                      state'[r] = IF r \in Range(l) /\ state[r] = "paused"
                                  THEN "recording" ELSE state[r]]_vars

\* One recorder paused with a chunk in its buffer while the other records.
C8_Witness ==
    \E r1, r2 \in Recorders :
        /\ state[r1] = "paused" /\ Len(chunks[r1]) = 1
        /\ state[r2] = "recording"

\* C9: a chunks array only grows at its end: a step changes it only by
\* appending the data of a new, non-empty delivery, every non-empty delivery
\* is appended, and the array always holds the non-empty deliveries in
\* arrival order, each once.
RECURSIVE NonEmptyDeliveries(_, _)
NonEmptyDeliveries(r, n) ==
    IF n = 0 THEN <<>>
    ELSE IF delivered[r][n] > 0
         THEN Append(NonEmptyDeliveries(r, n - 1), EventData(n, delivered[r][n]))
         ELSE NonEmptyDeliveries(r, n - 1)

C9_AppendOnly ==
    [][\A r \in Recorders :
          /\ chunks[r] = NonEmptyDeliveries(r, Len(delivered[r]))
          /\ IF delivered'[r] = delivered[r]
             THEN chunks'[r] = chunks[r]
             ELSE \E size \in ChunkSizes :
                    /\ delivered'[r] = Append(delivered[r], size)
                    /\ chunks'[r] = IF size > 0
                                    THEN Append(chunks[r], EventData(Len(delivered'[r]), size))
                                    ELSE chunks[r]]_vars

\* A delivery after stop(), before the stop event: a second stopRecording
\* call found r inactive with an empty buffer (its blob is empty), and the
\* chunk that r holds came after it, while the stop was pending.  The other
\* recorder is paused and holds a chunk.
C9_Witness ==
    \E r, r2 \in Recorders : \E q, p \in Invoked :
        /\ starts[r] = 1 /\ stopQueued[r] = 1
        /\ r \in issued[q] /\ r \notin issued[p]
        /\ r \in DOMAIN results[p] /\ results[p][r] = <<>>
        /\ delivered[r] = <<2>> /\ chunks[r] = <<EventData(1, 2)>>
        /\ state[r2] = "paused" /\ Len(chunks[r2]) = 1

\* C10: every track that has been started is eventually in the map of a
\* resolved stopRecording promise, or reported as failed.
Finalized(r) == \E p \in Invoked : resolved[p] /\ r \in DOMAIN results[p]
ReportedFailed(r) == \E p \in Invoked : r \in ErrorList(p)

C10_EventuallyFinalized ==
    \A r \in Recorders : started[r] ~> (Finalized(r) \/ ReportedFailed(r))

----------------------------------------------------------------------------
(* Dead-air removal: src/src/renderer/lib/dead-air-remover.ts               *)
(*                                                                          *)
(* Amplitudes are counted in units of 0.005, so that the default threshold  *)
(* 0.01 is 2.  A buffer is held in blocks of BlockSize equal samples: at    *)
(* 16 kHz a 50 ms window is one block, at 48 kHz three.  Times are counted  *)
(* in ticks of 1/120 s: a window is 6 ticks, a block at 48 kHz 2 ticks, the *)
(* editor's padding of 0.3 s is 36 and its minimum of 1.5 s is 180.         *)
(*                                                                          *)
(* The code holds every time as a double.  The tick count t stands for the  *)
(* double nearest to t / 120, which is what i / sampleRate and a decimal    *)
(* literal evaluate to.  Two times that differ by a tick differ by far more *)
(* than any rounding error, so that comparisons of times are those of the   *)
(* tick counts, except for the duration test timeSec - silenceStart >=      *)
(* minDuration when the run lasts exactly minDuration: there the rounded    *)
(* difference of the two rounded times can fall below the rounded minimum.  *)

MaxTracks == 3
MaxSamples == 3
MaxFineSamples == 7

BlockSize == 800
CoarseRate == 20 * BlockSize
FineRate == 3 * CoarseRate
TicksPerSecond == 120
Amplitudes == {0, 3}

Min(x, y) == IF x < y THEN x ELSE y
Max(x, y) == IF x > y THEN x ELSE y

\* AudioBuffer: sampleRate and the samples of channel 0, block by block.
AudioBuffer(rate, data) == [sampleRate |-> rate, data |-> data]

SamplesUpTo(n) == UNION {[1..k -> Amplitudes] : k \in 0..n}

\* channelData.length
Length(data) == Len(data) * BlockSize

\* channelData[j]
Sample(data, j) == data[(j \div BlockSize) + 1]

\* i / sampleRate, in ticks.
TimeSec(i, sampleRate) == (i * TicksPerSecond) \div sampleRate

\* buffer.duration = length / sampleRate
Duration(buffer) == TimeSec(Length(buffer.data), buffer.sampleRate)

\* A window of sampleRate / 100000 samples.
WindowSize_tenMicroseconds(sampleRate) == sampleRate \div 100000

\* Math.floor(sampleRate * 0.05)
WindowSize(sampleRate) == (sampleRate * 5) \div 100

\* sumSquares over channelData[i .. end-1] (0-based, end exclusive), the equal
\* samples of a block taken together.
RECURSIVE SumSquares(_, _, _)
SumSquares(data, i, end) ==
    IF i >= end THEN 0
    ELSE LET next == Min(end, ((i \div BlockSize) + 1) * BlockSize)
         IN  (next - i) * Sample(data, i) * Sample(data, i) + SumSquares(data, next, end)

\* rms < threshold, with rms = Math.sqrt(sumSquares / (end - i)): for a
\* threshold >= 0 this is sumSquares < threshold^2 * (end - i).
IsQuiet(data, i, end, threshold) ==
    SumSquares(data, i, end) < threshold * threshold * (end - i)

(* Double arithmetic.  For t > 0 ticks the double nearest to t / 120 is     *)
(* n * 2^-BinaryScale(t) with 2^52 <= n < 2^53.  The quotient               *)
(* t * 2^BinaryScale(t) / 120 has the integer part N and the remainder      *)
(* rho / 120; n is N or N + 1, whichever is nearer (120 = 8 * 15 and rho is *)
(* a multiple of 8, so that rho is never 60: there is no tie).              *)

\* floor(log2(t / TicksPerSecond)) for t > 0
RECURSIVE ExponentUp(_, _)
ExponentUp(t, j) == IF t < TicksPerSecond * 2^(j + 1) THEN j ELSE ExponentUp(t, j + 1)

RECURSIVE ExponentDown(_, _)
ExponentDown(t, j) == IF t * 2^j >= TicksPerSecond THEN 0 - j ELSE ExponentDown(t, j + 1)

Exponent(t) == IF t >= TicksPerSecond THEN ExponentUp(t, 0) ELSE ExponentDown(t, 1)

BinaryScale(t) == 52 - Exponent(t)

\* 2^k modulo m
RECURSIVE PowerMod(_, _)
PowerMod(k, m) ==
    IF k = 0 THEN 1 % m
    ELSE LET root == PowerMod(k \div 2, m)
         IN  (root * root * (IF k % 2 = 1 THEN 2 ELSE 1)) % m

\* t * 2^BinaryScale(t) modulo m
Remainder(t, m) == ((t % m) * PowerMod(BinaryScale(t), m)) % m

\* The double of t less t / 120, in units of 2^-BinaryScale(t) / 120.
RoundingError(t) ==
    IF t = 0 THEN 0
    ELSE LET rho == Remainder(t, TicksPerSecond)
         IN  IF 2 * rho < TicksPerSecond THEN 0 - rho ELSE TicksPerSecond - rho

\* The mantissa n of the double of t is odd.
OddMantissa(t) ==
    LET r == Remainder(t, 2 * TicksPerSecond)
        up == IF 2 * (r % TicksPerSecond) > TicksPerSecond THEN 1 ELSE 0
    IN  ((r \div TicksPerSecond) + up) % 2 = 1

\* t / 120 is a power of two: the double below it is half as far as the one above.
PowerOfTwo(t) ==
    IF Exponent(t) >= 0
    THEN t = TicksPerSecond * 2^Exponent(t)
    ELSE t * 2^(0 - Exponent(t)) = TicksPerSecond

\* a - b >= m in doubles, for a - b = m in ticks and m > 0.  The exact
\* difference of the doubles of a and b, less the double of m, is diff; the
\* difference is rounded to the nearest double, to the even one at a tie, and
\* reaches the double of m when it is not below the middle between that and
\* the double before it.  All of it in units of 2^-top / 120.
ReachesMinimum(a, b, m) ==
    LET top == Max(BinaryScale(a), Max(IF b = 0 THEN 0 ELSE BinaryScale(b), BinaryScale(m))) + 2
        diff == RoundingError(a) * 2^(top - BinaryScale(a))
                  - (IF b = 0 THEN 0 ELSE RoundingError(b) * 2^(top - BinaryScale(b)))
                  - RoundingError(m) * 2^(top - BinaryScale(m))
        half == IF PowerOfTwo(m)
                THEN TicksPerSecond * 2^(top - BinaryScale(m) - 2)
                ELSE TicksPerSecond * 2^(top - BinaryScale(m) - 1)
    IN  \/ diff + half > 0
        \/ diff + half = 0 /\ ~OddMantissa(m)

\* const duration = timeSec - silenceStart; duration >= minDuration
LongEnough(silenceStart, timeSec, minDuration) ==
    IF timeSec - silenceStart # minDuration \/ minDuration = 0
    THEN timeSec - silenceStart >= minDuration
    ELSE ReachesMinimum(timeSec, silenceStart, minDuration)

Region(start, end) == [start |-> start, end |-> end]

\* One iteration of the window loop of detectSilence on the loop's state: the
\* index i, silenceStart (<<>> for null, <<t>> for the time t) and the regions
\* pushed so far.  Past the end of the data the loop has ended and the state
\* stays as it is.
ScanStep(buffer, options, st) ==
    LET data == buffer.data
        windowSize == WindowSize(buffer.sampleRate)
        i == st.i
        end == Min(i + windowSize, Length(data))
        timeSec == TimeSec(i, buffer.sampleRate)
    IN  IF i >= Length(data)
        THEN st
        ELSE IF IsQuiet(data, i, end, options.silenceThreshold)
        THEN [i |-> i + windowSize,
              silenceStart |-> IF st.silenceStart = <<>> THEN <<timeSec>> ELSE st.silenceStart,
              regions |-> st.regions]
        ELSE [i |-> i + windowSize,
              silenceStart |-> <<>>,
              regions |-> IF /\ st.silenceStart # <<>>
                             /\ LongEnough(st.silenceStart[1], timeSec,
                                           options.minSilenceDuration)
                          THEN Append(st.regions, Region(st.silenceStart[1], timeSec))
                          ELSE st.regions]

\* n iterations in a row, the first half and then the second half.
RECURSIVE ScanIterate(_, _, _, _)
ScanIterate(buffer, options, st, n) ==
    IF n = 0 THEN st
    ELSE IF n = 1 THEN ScanStep(buffer, options, st)
    ELSE LET half == ScanIterate(buffer, options, st, n \div 2)
         IN  IF half.i >= Length(buffer.data)
             THEN half
             ELSE ScanIterate(buffer, options, half, n - (n \div 2))

\* The window loop from i = 0 to its end, i >= channelData.length: with a
\* window of at least one sample that is after no more iterations than the
\* buffer has samples, and ScanIterate runs none once the loop has ended.
ScanWindows(buffer, options) ==
    ScanIterate(buffer, options, [i |-> 0, silenceStart |-> <<>>, regions |-> <<>>],
                Length(buffer.data))

\* An end time rounded up to whole windows.
EndTime_wholeWindows(buffer) ==
    LET ws == WindowSize(buffer.sampleRate)
    IN  TimeSec(((Length(buffer.data) + ws - 1) \div ws) * ws, buffer.sampleRate)

\* const endTime = channelData.length / sampleRate
EndTime(buffer) == TimeSec(Length(buffer.data), buffer.sampleRate)

\* The silence regions: the loop, then the trailing silence.
SilenceRegions(buffer, options) ==
    LET scan == ScanWindows(buffer, options)
        endTime == EndTime(buffer)
    IN  IF scan.silenceStart # <<>>
           /\ LongEnough(scan.silenceStart[1], endTime, options.minSilenceDuration)
        THEN Append(scan.regions, Region(scan.silenceStart[1], endTime))
        ELSE scan.regions

\* The keep-region loop of detectSilence from the k-th silence region on.
RECURSIVE KeepLoop(_, _, _, _, _, _)
KeepLoop(silence, k, cursor, keep, padding, totalDuration) ==
    IF k > Len(silence)
    THEN IF cursor < totalDuration
         THEN Append(keep, Region(cursor, totalDuration)) ELSE keep
    ELSE LET keepEnd == Min(silence[k].start + padding, silence[k].end)
             keepStart == Max(silence[k].end - padding, silence[k].start)
         IN  KeepLoop(silence, k + 1, keepStart,
                      IF cursor < keepEnd THEN Append(keep, Region(cursor, keepEnd)) ELSE keep,
                      padding, totalDuration)

KeepRegions(silence, padding, totalDuration) ==
    IF Len(silence) = 0
    THEN <<Region(0, totalDuration)>>
    ELSE KeepLoop(silence, 1, 0, <<>>, padding, totalDuration)

detectSilence(buffer, options) ==
    LET silence == SilenceRegions(buffer, options)
    IN  [silenceRegions |-> silence,
         keepRegions |-> KeepRegions(silence, options.padding, Duration(buffer))]

\* An advance test that compares the starts instead of the ends.
AdvanceA_byStart(ra, rb) == ra.start < rb.start

\* if (a[ai].end < b[bi].end) ai++; else bi++;
AdvanceA(ra, rb) == ra.end < rb.end

\* An emission test that lets an empty overlap through.
NonEmpty_orTouching(start, end) == start <= end

\* if (start < end) result.push({ start, end })
NonEmpty(start, end) == start < end

\* The while loop of intersectRegions; ai and bi are 0-based as in the code.
RECURSIVE Sweep(_, _, _, _, _)
Sweep(a, b, ai, bi, result) ==
    IF ~(ai < Len(a) /\ bi < Len(b))
    THEN result
    ELSE LET ra == a[ai + 1]
             rb == b[bi + 1]
             start == Max(ra.start, rb.start)
             end == Min(ra.end, rb.end)
             res == IF NonEmpty(start, end) THEN Append(result, Region(start, end)) ELSE result
         IN  IF AdvanceA(ra, rb)
             THEN Sweep(a, b, ai + 1, bi, res)
             ELSE Sweep(a, b, ai, bi + 1, res)

\* An intersection that takes an empty list for "no constraint".
intersectRegions_keepRest(a, b) ==
    IF a = <<>> THEN b ELSE IF b = <<>> THEN a ELSE Sweep(a, b, 0, 0, <<>>)

intersectRegions(a, b) == Sweep(a, b, 0, 0, <<>>)

\* The reduction loop of detectDeadAirAcrossTracks from index i (0-based) on.
RECURSIVE ReduceFrom(_, _, _)
ReduceFrom(allSilence, i, result) ==
    IF i >= Len(allSilence)
    THEN result
    ELSE ReduceFrom(allSilence, i + 1, intersectRegions(result, allSilence[i + 1]))

\* A reduction that leaves the last report out.
Reduce_skipLast(allSilence) ==
    IF Len(allSilence) > 1
    THEN ReduceFrom(SubSeq(allSilence, 1, Len(allSilence) - 1), 1, allSilence[1])
    ELSE allSilence[1]

\* let result = allSilence[0]; for (i = 1; ...) result = intersectRegions(result, allSilence[i])
Reduce(allSilence) == ReduceFrom(allSilence, 1, allSilence[1])

\* if (buffers.length === 0) return [];
NoBuffers(bufs) == Len(bufs) = 0

\* An analysis that takes the first track's report for the plan.
detectDeadAirAcrossTracks_firstOnly(bufs, options) ==
    IF NoBuffers(bufs)
    THEN <<>>
    ELSE detectSilence(bufs[1], options).silenceRegions

detectDeadAirAcrossTracks(bufs, options) ==
    IF NoBuffers(bufs)
    THEN <<>>
    ELSE Reduce([k \in 1..Len(bufs) |-> detectSilence(bufs[k], options).silenceRegions])

----------------------------------------------------------------------------
(* EditorScreen.handleRemoveDeadAir (src/unnamed/part_005): decode every    *)
(* track file in order, analyse, then select and trim every region from the *)
(* end of the recording to its start.  Any exception ends the handler in    *)
(* its catch block.                                                         *)

\* A track file that decodes to the buffer.
Decodable(buffer) == [ok |-> TRUE, buffer |-> buffer]

MaxSegments == 3
MaxEditorTracks == 2
MaxCuts == 1
MaxBleeps == 1

\* The stretches a recorded track of the model is made of, at 16 kHz: 1.5 s of
\* silence (30 windows), 0.75 s of silence, 0.1 s of speech.
QuietSamples(n) == [i \in 1..n |-> 0]
LongQuiet == QuietSamples(30)
ShortQuiet == QuietSamples(15)
Loud == <<3, 3>>
Segments == {LongQuiet, ShortQuiet, Loud}

RECURSIVE Flatten(_)
Flatten(segs) == IF segs = <<>> THEN <<>> ELSE Head(segs) \o Flatten(Tail(segs))

Recordings == {Flatten(segs) : segs \in UNION {[1..n -> Segments] : n \in 0..MaxSegments}}

RecordedFiles == {Decodable(AudioBuffer(CoarseRate, d)) : d \in Recordings} \cup {Corrupt}

\* The sessions of the model: up to MaxEditorTracks track files, any of them
\* unreadable.
Sessions == UNION {[1..n -> RecordedFiles] : n \in 0..MaxEditorTracks}

\* { silenceThreshold: 0.01, minSilenceDuration: 1.5, padding: 0.3 }
EditorOptions ==
    [silenceThreshold |-> 2,
     minSilenceDuration |-> (3 * TicksPerSecond) \div 2,
     padding |-> (3 * TicksPerSecond) \div 10]

DeadAirInit ==
    /\ RecorderInit
    /\ ExportIdle
    /\ SaveIdle /\ WavIdle /\ ScanIdle
    /\ playlistRef = FALSE
    /\ trackFiles \in Sessions
    /\ daOptions = EditorOptions
    /\ daPc = "idle"
    /\ buffers = <<>>
    /\ deadAirRegions = <<>>
    /\ sortedRegions = <<>>
    /\ calls = <<>>
    /\ cutClicks = 0
    /\ bleeps = 0
    /\ alertMsg = ""
    /\ processingDeadAir = FALSE

\* The mount effect: no playlist is created for a session without tracks.
MountEditor ==
    /\ ~playlistRef
    /\ Len(trackFiles) # 0
    /\ playlistRef' = TRUE
    /\ UNCHANGED <<trackFiles, daOptions, daPc, buffers, deadAirRegions, sortedRegions,
                   calls, cutClicks, bleeps, alertMsg, processingDeadAir>>
    /\ UNCHANGED <<recorderVars, exportVars, libVars>>

\* Cut Selection: if (playlistRef.current) ee.emit('trim').  The button is
\* never disabled.
handleCut ==
    /\ playlistRef
    /\ cutClicks < MaxCuts
    /\ cutClicks' = cutClicks + 1
    /\ UNCHANGED <<playlistRef, trackFiles, daOptions, daPc, buffers, deadAirRegions,
                   sortedRegions, calls, bleeps, alertMsg, processingDeadAir>>
    /\ UNCHANGED <<recorderVars, exportVars, libVars>>

\* Bleep (1s): a generated tone is loaded into the playlist as a new track.
handleBleep ==
    /\ playlistRef
    /\ bleeps < MaxBleeps
    /\ bleeps' = bleeps + 1
    /\ UNCHANGED <<playlistRef, trackFiles, daOptions, daPc, buffers, deadAirRegions,
                   sortedRegions, calls, cutClicks, alertMsg, processingDeadAir>>
    /\ UNCHANGED <<recorderVars, exportVars, libVars>>

\* A sort that puts the earliest region first.
RECURSIVE SortByStartDesc_ascending(_)
SortByStartDesc_ascending(regions) ==
    IF regions = <<>> THEN <<>>
    ELSE LET rest == SortByStartDesc_ascending(Tail(regions))
             r == Head(regions)
             before == SelectSeq(rest, LAMBDA x : x.start < r.start)
             after == SelectSeq(rest, LAMBDA x : ~(x.start < r.start))
         IN  before \o <<r>> \o after

\* [...deadAirRegions].sort((a, b) => b.start - a.start)
RECURSIVE SortByStartDesc(_)
SortByStartDesc(regions) ==
    IF regions = <<>> THEN <<>>
    ELSE LET rest == SortByStartDesc(Tail(regions))
             r == Head(regions)
             before == SelectSeq(rest, LAMBDA x : x.start > r.start)
             after == SelectSeq(rest, LAMBDA x : ~(x.start > r.start))
         IN  before \o <<r>> \o after

\* ee.emit('select', region.start, region.end)
EmitSelect(region) == <<"select", region.start, region.end>>

\* playlistRef.current.trim()
CallTrim == <<"trim">>

\* The button is disabled while processingDeadAir; without a playlist the
\* handler returns at once.
handleRemoveDeadAir ==
    /\ daPc = "idle"
    /\ ~processingDeadAir
    /\ playlistRef
    /\ processingDeadAir' = TRUE
    /\ daPc' = "decoding"
    /\ buffers' = <<>>
    /\ UNCHANGED <<playlistRef, trackFiles, daOptions, deadAirRegions, sortedRegions,
                   calls, cutClicks, bleeps, alertMsg>>
    /\ UNCHANGED <<recorderVars, exportVars, libVars>>

\* One turn of the decoding loop.  decodeAudioData rejects on an unreadable
\* file: the catch block alerts and the handler ends.  After the last file
\* the analysis runs in the same turn; with an empty plan the handler alerts
\* and ends, otherwise it sorts the plan, emits 'select' for the latest region
\* and waits 50 ms.  sortedRegions keeps the regions the loop has not trimmed
\* yet.
DecodeNext ==
    LET k == Len(buffers) + 1
        file == trackFiles[k]
        bufs == Append(buffers, file.buffer)
        regions == detectDeadAirAcrossTracks(bufs, daOptions)
    IN  /\ daPc = "decoding"
        /\ k <= Len(trackFiles)
        /\ IF ~file.ok
           THEN /\ alertMsg' = "failed"
                /\ processingDeadAir' = FALSE
                /\ daPc' = "failed"
                /\ UNCHANGED <<buffers, deadAirRegions, sortedRegions, calls>>
           ELSE /\ buffers' = bufs
                /\ IF k < Len(trackFiles)
                   THEN UNCHANGED <<daPc, deadAirRegions, sortedRegions, calls, alertMsg,
                                    processingDeadAir>>
                   ELSE /\ deadAirRegions' = regions
                        /\ IF Len(regions) = 0
                           THEN /\ alertMsg' = "none"
                                /\ processingDeadAir' = FALSE
                                /\ daPc' = "done"
                                /\ UNCHANGED <<sortedRegions, calls>>
                           ELSE /\ sortedRegions' = SortByStartDesc(regions)
                                /\ calls' = Append(calls,
                                                   EmitSelect(Head(SortByStartDesc(regions))))
                                /\ daPc' = "selected"
                                /\ UNCHANGED <<alertMsg, processingDeadAir>>
        /\ UNCHANGED <<playlistRef, trackFiles, daOptions, cutClicks, bleeps>>
        /\ UNCHANGED <<recorderVars, exportVars, libVars>>

\* The first timer has fired: playlistRef.current.trim(); the handler waits
\* another 50 ms.
TrimNext ==
    /\ daPc = "selected"
    /\ calls' = Append(calls, CallTrim)
    /\ sortedRegions' = Tail(sortedRegions)
    /\ daPc' = "trimmed"
    /\ UNCHANGED <<playlistRef, trackFiles, daOptions, buffers, deadAirRegions,
                   cutClicks, bleeps, alertMsg, processingDeadAir>>
    /\ UNCHANGED <<recorderVars, exportVars, libVars>>

\* The second timer has fired and a region is left: ee.emit('select', ...) of
\* the next region, then 50 ms of waiting.
SelectNext ==
    /\ daPc = "trimmed"
    /\ sortedRegions # <<>>
    /\ calls' = Append(calls, EmitSelect(Head(sortedRegions)))
    /\ daPc' = "selected"
    /\ UNCHANGED <<playlistRef, trackFiles, daOptions, buffers, deadAirRegions,
                   sortedRegions, cutClicks, bleeps, alertMsg, processingDeadAir>>
    /\ UNCHANGED <<recorderVars, exportVars, libVars>>

\* The second timer has fired after the last region: the alert, then the
\* finally block.
FinishRemoval ==
    /\ daPc = "trimmed"
    /\ sortedRegions = <<>>
    /\ alertMsg' = "removed"
    /\ processingDeadAir' = FALSE
    /\ daPc' = "done"
    /\ UNCHANGED <<playlistRef, trackFiles, daOptions, buffers, deadAirRegions,
                   sortedRegions, calls, cutClicks, bleeps>>
    /\ UNCHANGED <<recorderVars, exportVars, libVars>>

DeadAirNext ==
    \/ MountEditor
    \/ handleCut
    \/ handleBleep
    \/ handleRemoveDeadAir
    \/ DecodeNext
    \/ TrimNext
    \/ SelectNext
    \/ FinishRemoval

DeadAirSpec == DeadAirInit /\ [][DeadAirNext]_vars

----------------------------------------------------------------------------
(* The library called directly: detectDeadAirAcrossTracks(buffers, options) *)
(* on short buffers at both rates, with a minSilenceDuration of 0.025, 0.05 *)
(* or 0.075 s (half a window, one, one and a half) and a padding of 0.025   *)
(* or 0.05 s.                                                               *)

CoarseBuffers == {AudioBuffer(CoarseRate, d) : d \in SamplesUpTo(MaxSamples)}
FineBuffers == {AudioBuffer(FineRate, d) : d \in SamplesUpTo(MaxFineSamples)}

\* Up to MaxTracks coarsely sampled buffers, or one finely sampled buffer.
BufferLists == UNION {[1..n -> CoarseBuffers] : n \in 0..MaxTracks} \cup [1..1 -> FineBuffers]

\* silenceThreshold 0.01; minSilenceDuration and padding in ticks.
OptionSets == {[silenceThreshold |-> 2, minSilenceDuration |-> m, padding |-> p] :
                  m \in {3, 6, 9}, p \in {3, 6}}

AnalysisInit ==
    /\ RecorderInit
    /\ ExportIdle
    /\ SaveIdle /\ WavIdle /\ ScanIdle
    /\ playlistRef = FALSE
    /\ trackFiles = <<>>
    /\ daOptions \in OptionSets
    /\ daPc = "call"
    /\ buffers \in BufferLists
    /\ deadAirRegions = <<>>
    /\ sortedRegions = <<>>
    /\ calls = <<>>
    /\ cutClicks = 0
    /\ bleeps = 0
    /\ alertMsg = ""
    /\ processingDeadAir = FALSE

\* The call returns its regions.
AnalyseTracks ==
    /\ daPc = "call"
    /\ deadAirRegions' = detectDeadAirAcrossTracks(buffers, daOptions)
    /\ daPc' = "returned"
    /\ UNCHANGED <<playlistRef, trackFiles, daOptions, buffers, sortedRegions, calls,
                   cutClicks, bleeps, alertMsg, processingDeadAir>>
    /\ UNCHANGED <<recorderVars, exportVars, libVars>>

AnalysisNext == AnalyseTracks

AnalysisSpec == AnalysisInit /\ [][AnalysisNext]_vars

----------------------------------------------------------------------------
(* Vocabulary of the dead-air claims *)

\* The 50 ms windows of a buffer, numbered from 0; the last one may be short.
NumWindows(buffer) ==
    (Length(buffer.data) + WindowSize(buffer.sampleRate) - 1)
        \div WindowSize(buffer.sampleRate)

QuietWindow(buffer, w, threshold) ==
    LET ws == WindowSize(buffer.sampleRate)
    IN  IsQuiet(buffer.data, w * ws, Min((w + 1) * ws, Length(buffer.data)), threshold)

\* Windows a..b are a maximal run of quiet windows.
MaximalRun(buffer, a, b, threshold) ==
    /\ a <= b
    /\ \A w \in a..b : QuietWindow(buffer, w, threshold)
    /\ a = 0 \/ ~QuietWindow(buffer, a - 1, threshold)
    /\ b = NumWindows(buffer) - 1 \/ ~QuietWindow(buffer, b + 1, threshold)

\* The interval of the run a..b: from the start of its first window to the start
\* of the window after it, or to the end of the buffer.
RunInterval(buffer, a, b) ==
    LET ws == WindowSize(buffer.sampleRate)
    IN  Region(TimeSec(a * ws, buffer.sampleRate),
               IF b = NumWindows(buffer) - 1
               THEN Duration(buffer)
               ELSE TimeSec((b + 1) * ws, buffer.sampleRate))

\* What the claim says is reported: the intervals of the maximal runs whose
\* duration, as a number of seconds, is at least the minimum.
ExpectedSilence(buffer, options) ==
    {RunInterval(buffer, a, b) : <<a, b>> \in
        {x \in (0..(NumWindows(buffer) - 1)) \X (0..(NumWindows(buffer) - 1)) :
            /\ MaximalRun(buffer, x[1], x[2], options.silenceThreshold)
            /\ RunInterval(buffer, x[1], x[2]).end - RunInterval(buffer, x[1], x[2]).start
                   >= options.minSilenceDuration}}

\* Sorted by start with no two intervals overlapping.
SortedDisjoint(regions) ==
    \A i \in 1..(Len(regions) - 1) : regions[i].end <= regions[i + 1].start

\* C11: for every decoded buffer, detectSilence reports exactly the maximal runs
\* of quiet windows that last at least minSilenceDuration, each once and in
\* order: a run ended by a loud window as [start of its first window, start of
\* the loud window), a run open at the end of the buffer up to the buffer's
\* duration; shorter runs are not reported.
C11_MaximalQuietRuns ==
    \A k \in 1..Len(buffers) :
        LET report == detectSilence(buffers[k], daOptions).silenceRegions
        IN  /\ Range(report) = ExpectedSilence(buffers[k], daOptions)
            /\ Len(report) = Cardinality(ExpectedSilence(buffers[k], daOptions))
            /\ SortedDisjoint(report)

\* The silence report of the k-th decoded buffer.
Report(k) == detectSilence(buffers[k], daOptions).silenceRegions

\* C12: intersectRegions is commutative on the silence reports of any two
\* decoded tracks (sorted lists of disjoint intervals): both argument orders
\* give the same list of intervals.
C12_Commutative ==
    \A j, k \in 1..Len(buffers) :
        intersectRegions(Report(j), Report(k)) = intersectRegions(Report(k), Report(j))

\* Two tracks: one silent in its first and third window, one silent throughout;
\* the sweep meets equal ends and yields both intervals in either order.
C12_Witness ==
    /\ daPc = "returned"
    /\ Len(buffers) >= 2
    /\ Report(1) = <<Region(0, 6), Region(12, 18)>>
    /\ Report(2) = <<Region(0, 18)>>
    /\ intersectRegions(Report(1), Report(2)) = <<Region(0, 6), Region(12, 18)>>
    /\ intersectRegions(Report(2), Report(1)) = <<Region(0, 6), Region(12, 18)>>

\* The analysis has run on all the decoded tracks.
Analysed == daPc \in {"selected", "trimmed", "done", "returned"}

\* The orders in which n reports can be handed over.
Orders(n) == {f \in [1..n -> 1..n] : \A i, j \in 1..n : f[i] = f[j] => i = j}

\* C13: once detectDeadAirAcrossTracks has returned, handing it the same
\* buffers in any other order yields the same regions as the ones returned.
C13_OrderIndependent ==
    Analysed =>
        \A f \in Orders(Len(buffers)) :
            detectDeadAirAcrossTracks([k \in 1..Len(buffers) |-> buffers[f[k]]], daOptions)
                = deadAirRegions

\* Three tracks with three different reports, silent together in the first
\* window only.
C13_Witness ==
    /\ daPc = "returned"
    /\ Len(buffers) = 3
    /\ Report(1) = <<Region(0, 18)>>
    /\ Report(2) = <<Region(0, 6), Region(12, 18)>>
    /\ Report(3) = <<Region(0, 12)>>
    /\ deadAirRegions = <<Region(0, 6)>>

\* The silence common to all decoded tracks, before any padding.
CommonSilence == Reduce([k \in 1..Len(buffers) |-> Report(k)])

\* [s, e) shrunk to [s + padding, e - padding), dropped when nothing is left.
RECURSIVE Shrink(_, _)
Shrink(regions, padding) ==
    IF regions = <<>> THEN <<>>
    ELSE LET r == Head(regions)
             rest == Shrink(Tail(regions), padding)
         IN  IF r.start + padding < r.end - padding
             THEN <<Region(r.start + padding, r.end - padding)>> \o rest
             ELSE rest

\* C14: once the tracks are analysed, the regions to remove are the silence
\* common to all tracks with every interval [s, e) shrunk to
\* [s + padding, e - padding).
C14_PaddedPlan ==
    Analysed => deadAirRegions = Shrink(CommonSilence, daOptions.padding)

\* C15: every range that is removed has start < end and lies inside a common
\* silence interval with at least padding left on each side, and no range is
\* removed from a common silence interval shorter than 2 * padding.
C15_PaddingSurvives ==
    LET silence == Range(CommonSilence)
        cuts == Range(deadAirRegions)
        padding == daOptions.padding
    IN  Analysed =>
            /\ \A c \in cuts :
                  /\ c.start < c.end
                  /\ \E i \in silence : i.start + padding <= c.start /\ c.end <= i.end - padding
            /\ \A i \in silence :
                  i.end - i.start < 2 * padding =>
                      \A c \in cuts : c.end <= i.start \/ i.end <= c.start

\* C16: detectDeadAirAcrossTracks returns, and returns no region, for zero
\* buffers and for any list of buffers one of which has an empty report.
C16_EmptyPlan ==
    /\ \A n \in 0..Len(buffers) :
          (n = 0 \/ \E j \in 1..n : Report(j) = <<>>)
              => detectDeadAirAcrossTracks(SubSeq(buffers, 1, n), daOptions) = <<>>
    /\ (daPc = "returned" /\ (Len(buffers) = 0 \/ \E j \in 1..Len(buffers) : Report(j) = <<>>))
          => deadAirRegions = <<>>

\* Two tracks, the first with silence, the second with none.
C16_Witness ==
    /\ daPc = "returned"
    /\ Len(buffers) = 2
    /\ Report(1) = <<Region(0, 18)>>
    /\ Report(2) = <<>>
    /\ deadAirRegions = <<>>

\* The buffers of the readable files among the first n track files, in order.
RECURSIVE Readable(_)
Readable(files) ==
    IF files = <<>> THEN <<>>
    ELSE IF Head(files).ok THEN <<Head(files).buffer>> \o Readable(Tail(files))
    ELSE Readable(Tail(files))

\* C17: when a track file cannot be decoded, the handler still ends without a
\* failure: every readable track has been decoded, and the unreadable one
\* counts as a track without silence, so that nothing is removed.
C17_DecodeFailureIsolated ==
    ((\E k \in 1..Len(trackFiles) : ~trackFiles[k].ok) /\ daPc \in {"done", "failed"})
        => /\ daPc = "done"
           /\ alertMsg = "none"
           /\ buffers = Readable(trackFiles)

----------------------------------------------------------------------------
(* Export: the 'export-mix' handler (src/unnamed/part_000) and exportMix    *)
(* (src/unnamed/part_001).  A path is the sequence of the pieces of its     *)
(* file name between dots: <<"mix", "mp3">> is mix.mp3, <<"mix">> has no     *)
(* dot, <<"", "wav">> is the dot file .wav.  The ffmpeg command is the      *)
(* record of what the fluent calls have set.                                *)

MaxInputs == 3

InputNames == {"a.wav", "b.wav"}
InputLists == UNION {[1..n -> InputNames] : n \in 0..MaxInputs}
OutputPaths == {<<"mix">>, <<"mix", "mp3">>, <<"mix", "m4a">>, <<"mix", "wav">>,
                <<"mix", "ogg">>, <<"mix", "MP3">>, <<"", "wav">>,
                <<"mix", "wav", "mp3">>, <<"mix", "">>}

\* path.extname(outputPath).slice(1): what follows the last dot of the file
\* name, nothing if there is no dot or the only dot is the first character.
Extname(path) ==
    IF Len(path) <= 1 THEN ""
    ELSE IF Len(path) = 2 /\ path[1] = "" THEN ""
    ELSE path[Len(path)]

\* format: ext === 'mp3' || ext === 'm4a' || ext === 'wav' ? ext : 'mp3'
Format(ext) == IF ext \in {"mp3", "m4a", "wav"} THEN ext ELSE "mp3"

\* A check that lets the empty list through.
EmptyInput_never(inputFiles) == FALSE

\* if (inputFiles.length === 0) reject
EmptyInput(inputFiles) == Len(inputFiles) = 0

\* A merge test that leaves two inputs unmerged.
NeedsMerge_overTwo(inputFiles) == Len(inputFiles) > 2

\* if (inputFiles.length > 1)
NeedsMerge(inputFiles) == Len(inputFiles) > 1

\* `${filterInputs}amerge=inputs=${inputFiles.length}[aout]`: the input pads
\* [0:a] .. [n-1:a] in order, the filter, its inputs option and its output pad.
AmergeFilter(inputFiles) ==
    [pads |-> [i \in 1..Len(inputFiles) |-> i - 1], filter |-> "amerge",
     inputs |-> Len(inputFiles), out |-> "aout"]

\* A switch whose m4a case was copied from mp3 with the codec left as it was.
Encoding_m4aAsMp3(format) ==
    IF format = "wav"
    THEN [audioCodec |-> "pcm_s16le", audioBitrate |-> "", audioChannels |-> 2,
          audioFrequency |-> 44100]
    ELSE [audioCodec |-> "libmp3lame", audioBitrate |-> "192k", audioChannels |-> 2,
          audioFrequency |-> 44100]

\* switch (format): what each case sets; wav sets no bitrate.
Encoding(format) ==
    CASE format = "mp3" -> [audioCodec |-> "libmp3lame", audioBitrate |-> "192k",
                            audioChannels |-> 2, audioFrequency |-> 44100]
      [] format = "m4a" -> [audioCodec |-> "aac", audioBitrate |-> "192k",
                            audioChannels |-> 2, audioFrequency |-> 44100]
      [] format = "wav" -> [audioCodec |-> "pcm_s16le", audioBitrate |-> "",
                            audioChannels |-> 2, audioFrequency |-> 44100]
      [] OTHER -> [audioCodec |-> "", audioBitrate |-> "", audioChannels |-> 0,
                   audioFrequency |-> 0]

\* The command exportMix builds and runs for a non-empty input list.
BuildCommand(options) ==
    LET merge == NeedsMerge(options.inputFiles)
        enc == Encoding(options.format)
    IN  [inputs |-> options.inputFiles,
         complexFilter |-> IF merge THEN <<AmergeFilter(options.inputFiles)>> ELSE <<>>,
         outputOptions |-> IF merge THEN <<"-map", "[aout]">> ELSE <<>>,
         audioCodec |-> enc.audioCodec,
         audioBitrate |-> enc.audioBitrate,
         audioChannels |-> enc.audioChannels,
         audioFrequency |-> enc.audioFrequency,
         output |-> options.outputPath,
         run |-> TRUE]

ExportInit ==
    /\ RecorderInit
    /\ DeadAirIdle
    /\ SaveIdle /\ WavIdle /\ ScanIdle
    /\ exportArgs \in [inputFiles : InputLists, outputPath : OutputPaths]
    /\ exportPc = "idle"
    /\ command = NoCommand
    /\ outputWritten = FALSE

\* The 'export-mix' handler: the format from the extension of the output path,
\* then exportMix, which rejects an empty input list before ffmpeg() is called
\* and otherwise builds the command and runs it.
exportMix ==
    LET options == [inputFiles |-> exportArgs.inputFiles,
                    outputPath |-> exportArgs.outputPath,
                    format |-> Format(Extname(exportArgs.outputPath))]
    IN  /\ exportPc = "idle"
        /\ IF EmptyInput(options.inputFiles)
           THEN /\ exportPc' = "rejected"
                /\ UNCHANGED command
           ELSE /\ exportPc' = "running"
                /\ command' = BuildCommand(options)
        /\ UNCHANGED <<exportArgs, outputWritten>>
        /\ UNCHANGED <<recorderVars, deadAirVars, libVars>>

\* ffmpeg's 'end' event: the output file is complete, the promise resolves.
FfmpegEnd ==
    /\ exportPc = "running"
    /\ exportPc' = "resolved"
    /\ outputWritten' = TRUE
    /\ UNCHANGED <<exportArgs, command>>
    /\ UNCHANGED <<recorderVars, deadAirVars, libVars>>

\* ffmpeg's 'error' event, before or after it has begun to write the output.
FfmpegError(written) ==
    /\ exportPc = "running"
    /\ exportPc' = "rejected"
    /\ outputWritten' = written
    /\ UNCHANGED <<exportArgs, command>>
    /\ UNCHANGED <<recorderVars, deadAirVars, libVars>>

ExportNext ==
    \/ exportMix
    \/ FfmpegEnd
    \/ \E written \in BOOLEAN : FfmpegError(written)

ExportSpec == ExportInit /\ [][ExportNext]_vars

----------------------------------------------------------------------------
(* Vocabulary of the export claims *)

\* exportMix has been called.
Exported == exportPc # "idle"

\* The command has been configured and run.
Built == command # NoCommand

\* C18: an export of an empty input list is rejected at once: no ffmpeg command
\* is ever configured or run and no output is written.
C18_EmptyInputRejected ==
    (Exported /\ Len(exportArgs.inputFiles) = 0)
        => /\ exportPc = "rejected"
           /\ command = NoCommand
           /\ ~outputWritten

\* An export of no files to mix.mp3 has been rejected.
C18_Witness ==
    /\ exportArgs.inputFiles = <<>>
    /\ exportArgs.outputPath = <<"mix", "mp3">>
    /\ exportPc = "rejected"
    /\ command = NoCommand

\* C19: the command has every input file once, in list order, and the one
\* output path; with one input it has no filter and no stream mapping, with
\* N >= 2 it has the single filter amerge over the pads [0:a] .. [N-1:a] with
\* inputs=N, and its output pad is the only stream mapped.
C19_InputsAndMerge ==
    LET files == exportArgs.inputFiles
        n == Len(files)
    IN  Built =>
            /\ command.inputs = files
            /\ command.output = exportArgs.outputPath
            /\ n = 1 => command.complexFilter = <<>> /\ command.outputOptions = <<>>
            /\ n >= 2 =>
                  /\ Len(command.complexFilter) = 1
                  /\ command.complexFilter[1].filter = "amerge"
                  /\ command.complexFilter[1].pads = [i \in 1..n |-> i - 1]
                  /\ command.complexFilter[1].inputs = n
                  /\ command.outputOptions = <<"-map", "[" \o command.complexFilter[1].out \o "]">>

\* Two inputs mixed to mix.mp3: one amerge filter over [0:a][1:a].
C19_Witness ==
    /\ exportPc = "resolved"
    /\ exportArgs.inputFiles = <<"a.wav", "b.wav">>
    /\ command.inputs = <<"a.wav", "b.wav">>
    /\ command.complexFilter = <<[pads |-> <<0, 1>>, filter |-> "amerge", inputs |-> 2,
                                 out |-> "aout"]>>
    /\ command.outputOptions = <<"-map", "[aout]">>

\* The fixed table of encoding parameters: codec, bitrate ("" where none is
\* set), channels and sample rate per format.
EncodingTable ==
    [mp3 |-> <<"libmp3lame", "192k", 2, 44100>>,
     m4a |-> <<"aac", "192k", 2, 44100>>,
     wav |-> <<"pcm_s16le", "", 2, 44100>>]

\* The format of an export: the extension when it is one of the three, else mp3.
FormatOf(path) ==
    LET ext == Extname(path)
    IN  IF ext = "m4a" THEN "m4a" ELSE IF ext = "wav" THEN "wav" ELSE "mp3"

\* C20: the codec, bitrate, channels and sample rate of the command are the
\* row of the fixed table for the format, whatever the number of inputs.
C20_EncodingTable ==
    Built =>
        <<command.audioCodec, command.audioBitrate, command.audioChannels,
          command.audioFrequency>> = EncodingTable[FormatOf(exportArgs.outputPath)]

\* Three inputs mixed to mix.wav: 16-bit PCM, no bitrate, 2 channels, 44100 Hz.
C20_Witness ==
    /\ exportPc = "resolved"
    /\ Len(exportArgs.inputFiles) = 3
    /\ exportArgs.outputPath = <<"mix", "wav">>
    /\ command.audioCodec = "pcm_s16le"
    /\ command.audioBitrate = ""
    /\ command.audioChannels = 2
    /\ command.audioFrequency = 44100

----------------------------------------------------------------------------
(* RecordingScreen.handleStop, from the resolution of stopRecording on: one  *)
(* file per recorder that has a blob, converted to WAV and written by        *)
(* saveTrackToFile inside a try/catch of its own; then onFinished.  A string *)
(* is the sequence of its characters.                                        *)

MaxSaveTracks == 3

Letters == {"a", "b", "c", "d", "e", "f", "g", "h", "i", "j", "k", "l", "m", "n", "o", "p",
            "q", "r", "s", "t", "u", "v", "w", "x", "y", "z",
            "A", "B", "C", "D", "E", "F", "G", "H", "I", "J", "K", "L", "M", "N", "O", "P",
            "Q", "R", "S", "T", "U", "V", "W", "X", "Y", "Z"}
Digits == {"0", "1", "2", "3", "4", "5", "6", "7", "8", "9"}

\* A character class without the digits: [a-zA-Z]
IsAlnum_noDigits(c) == c \in Letters

\* The complement of the class of /[^a-zA-Z0-9]/
IsAlnum(c) == c \in Letters \cup Digits

\* peerName.replace(/[^a-zA-Z0-9]/g, '_')
SafeName(peerName) == [i \in 1..Len(peerName) |-> IF IsAlnum(peerName[i]) THEN peerName[i] ELSE "_"]

\* peerId.slice(0, 6)
Slice6(peerId) == SubSeq(peerId, 1, Min(6, Len(peerId)))

\* `${config.sessionName}_${safeName}_${recorder.peerId.slice(0, 6)}.wav`
Filename(session, recorder) ==
    session \o <<"_">> \o SafeName(recorder.peerName) \o <<"_">> \o Slice6(recorder.peerId)
        \o <<".", "w", "a", "v">>

\* The host ('local', 'Host') and two guests.
Peers == {[peerId |-> <<"l", "o", "c", "a", "l">>, peerName |-> <<"H", "o", "s", "t">>],
          [peerId |-> <<"a", "B", "3", "d", "e", "f", "g", "h">>,
           peerName |-> <<"A", "l", " ", "7">>],
          [peerId |-> <<"q", "1", "w", "2", "e", "3">>, peerName |-> <<"z", "-", "_", "!">>]}

SessionNames == {<<"s", "1">>, <<"m", "y", " ", "s", "h", "o", "w">>}

\* How saveTrackToFile ends for a track: it returns, decodeAudioData rejects,
\* or saveFile rejects, before writeFileSync has written anything or with a
\* part of the file on disk.
Outcomes == {"ok", "convertFails", "writeFails", "writePartial"}

TrackLists ==
    {l \in UNION {[1..n -> [peer : Peers, hasBlob : BOOLEAN, outcome : Outcomes]] :
                      n \in 0..MaxSaveTracks} :
        \A i, j \in DOMAIN l : l[i].peer = l[j].peer => i = j}

SaveInit ==
    /\ RecorderInit /\ DeadAirIdle /\ ExportIdle /\ WavIdle /\ ScanIdle
    /\ sessionName \in SessionNames
    /\ saveTracks \in TrackLists
    /\ savePc = "idle"
    /\ stopClicks = 0
    /\ saveIdx = 0
    /\ savedFiles = <<>>
    /\ filesWritten = <<>>
    /\ finishedWith = <<>>

\* Stop may be pressed again after the outer catch has put it back on the
\* screen.
MaxStopClicks == 2

\* What a second Stop finds.  Every recorder of the list is inactive by then,
\* so stopRecording builds a blob for each from its chunks; the conversion and
\* the write of each track may end in any way again.
SecondStop(list) ==
    {l \in [DOMAIN list -> [peer : Peers, hasBlob : {TRUE}, outcome : Outcomes]] :
        \A k \in DOMAIN list : l[k].peer = list[k].peer}

\* Stop is pressed: handleStop up to its await, setIsSaving(true) and the call
\* of stopRecording.  Stop is on the screen before the first save and again
\* after the outer catch.  The handler returns to the event loop; the events
\* of the recorders run as tasks of their own before it goes on.
PressStop ==
    /\ savePc \in {"idle", "caught"}
    /\ stopClicks < MaxStopClicks
    /\ stopClicks' = stopClicks + 1
    /\ savePc' = "stopping"
    /\ UNCHANGED <<sessionName, saveTracks, saveIdx, savedFiles, filesWritten,
                   finishedWith>>
    /\ UNCHANGED <<recorderVars, deadAirVars, exportVars, wavVars, scanVars>>

\* The promise of stopRecording has resolved and the handler goes on:
\* const savedFiles = [], and the loop begins.
BeginSave ==
    /\ savePc = "stopping"
    /\ saveTracks' \in IF stopClicks = 1 THEN {saveTracks} ELSE SecondStop(saveTracks)
    /\ savePc' = "saving"
    /\ saveIdx' = 0
    /\ savedFiles' = <<>>
    /\ UNCHANGED <<sessionName, stopClicks, filesWritten, finishedWith>>
    /\ UNCHANGED <<recorderVars, deadAirVars, exportVars, wavVars, scanVars>>

\* An inner catch that throws the error on to the outer one.
OnSaveError_rethrow(pc) == "aborted"

\* catch (err) { console.error(...) }: the loop goes on.
OnSaveError(pc) == pc

\* A file that writeFileSync has left under a name, whole or in part, and the
\* press of Stop that wrote it.  A later write under the same name replaces it.
Written(filename, k, whole) ==
    [name |-> filename, track |-> k, complete |-> whole, stop |-> stopClicks]

\* A turn of the loop over recordersRef.current begins.  A recorder without a
\* blob is skipped.  Otherwise the handler awaits saveTrackToFile: the blob is
\* converted and the main process writes the file; the handler goes on in a
\* later task.  A rejection that leaves nothing on disk is caught there and
\* the loop goes on.
SaveNext ==
    LET k == saveIdx + 1
        t == saveTracks[k]
        filename == Filename(sessionName, t.peer)
    IN  /\ savePc = "saving"
        /\ k <= Len(saveTracks)
        /\ IF ~t.hasBlob
           THEN /\ saveIdx' = k
                /\ UNCHANGED <<savePc, filesWritten>>
           ELSE IF t.outcome = "ok"
           THEN /\ filesWritten' = Append(filesWritten, Written(filename, k, TRUE))
                /\ savePc' = "written"
                /\ UNCHANGED saveIdx
           ELSE IF t.outcome = "writePartial"
           THEN /\ filesWritten' = Append(filesWritten, Written(filename, k, FALSE))
                /\ savePc' = "rejected"
                /\ UNCHANGED saveIdx
           ELSE /\ savePc' = OnSaveError(savePc)
                /\ saveIdx' = k
                /\ UNCHANGED filesWritten
        /\ UNCHANGED <<sessionName, saveTracks, stopClicks, savedFiles, finishedWith>>
        /\ UNCHANGED <<recorderVars, deadAirVars, exportVars, wavVars, scanVars>>

\* saveFile has answered: savedFiles.push(filename), and the loop goes on.
PushSaved ==
    LET k == saveIdx + 1
    IN  /\ savePc = "written"
        /\ savedFiles' = Append(savedFiles, Filename(sessionName, saveTracks[k].peer))
        /\ saveIdx' = k
        /\ savePc' = "saving"
        /\ UNCHANGED <<sessionName, saveTracks, stopClicks, filesWritten, finishedWith>>
        /\ UNCHANGED <<recorderVars, deadAirVars, exportVars, wavVars, scanVars>>

\* saveFile has rejected after a partial write: the inner catch.
CatchSaveError ==
    /\ savePc = "rejected"
    /\ saveIdx' = saveIdx + 1
    /\ savePc' = OnSaveError("saving")
    /\ UNCHANGED <<sessionName, saveTracks, stopClicks, savedFiles, filesWritten,
                   finishedWith>>
    /\ UNCHANGED <<recorderVars, deadAirVars, exportVars, wavVars, scanVars>>

\* The loop is over.  room.leave(), the stop of the local tracks and
\* noiseFilter.cleanup() run in the same task; when none of them throws,
\* onFinished(savedFiles) is called.  When one throws, the outer catch shows
\* the alert and setIsSaving(false) puts Stop back on the screen: onFinished
\* is not called.
FinishSave(tailThrows) ==
    /\ savePc = "saving"
    /\ saveIdx = Len(saveTracks)
    /\ IF tailThrows
       THEN /\ savePc' = "caught"
            /\ UNCHANGED finishedWith
       ELSE /\ savePc' = "finished"
            /\ finishedWith' = savedFiles
    /\ UNCHANGED <<sessionName, saveTracks, stopClicks, saveIdx, savedFiles, filesWritten>>
    /\ UNCHANGED <<recorderVars, deadAirVars, exportVars, wavVars, scanVars>>

SaveNextStep ==
    \/ PressStop
    \/ BeginSave
    \/ SaveNext
    \/ PushSaved
    \/ CatchSaveError
    \/ \E tailThrows \in BOOLEAN : FinishSave(tailThrows)

SaveSpec == SaveInit /\ [][SaveNextStep]_vars

\* The tracks whose save succeeded, in recorder order.
Succeeded == SelectSeq([k \in 1..Len(saveTracks) |-> k],
                       LAMBDA k : saveTracks[k].hasBlob /\ saveTracks[k].outcome = "ok")

\* The files that the save in hand has written whole, in the order of writing.
WholeFiles == SelectSeq(filesWritten, LAMBDA f : f.complete /\ f.stop = stopClicks)

\* C21: a track whose conversion or write fails never aborts the session: the
\* error is not passed on, the outer catch is reached only after the loop has
\* tried every track, every other track has been written by then, and
\* onFinished receives exactly the names of the files this save has written
\* whole, in recorder order.
C21_SaveFailureIsolated ==
    /\ savePc # "aborted"
    /\ savePc \in {"finished", "caught"} =>
          /\ saveIdx = Len(saveTracks)
          /\ [i \in 1..Len(WholeFiles) |-> WholeFiles[i].track] = Succeeded
          /\ savedFiles = [i \in 1..Len(WholeFiles) |-> WholeFiles[i].name]
    /\ savePc = "finished" => finishedWith = savedFiles
    /\ savePc # "finished" => finishedWith = <<>>

\* Three tracks, the write of the second fails, the other two are saved.
C21_Witness ==
    /\ savePc = "finished"
    /\ stopClicks = 1
    /\ Len(saveTracks) = 3
    /\ \A k \in 1..3 : saveTracks[k].hasBlob
    /\ saveTracks[1].outcome = "ok"
    /\ saveTracks[2].outcome = "writeFails"
    /\ saveTracks[3].outcome = "ok"
    /\ Len(finishedWith) = 2
    /\ [i \in 1..Len(filesWritten) |-> filesWritten[i].track] = <<1, 3>>

\* C22: every file written is named sessionName, '_', the display name with
\* each character outside [A-Za-z0-9] turned into '_' and every other one
\* kept, '_', the first six characters of the track id, '.wav'.
C22_FilenamePattern ==
    \A i \in 1..Len(filesWritten) :
        LET f == filesWritten[i].name
            peer == saveTracks[filesWritten[i].track].peer
            n == Len(sessionName)
            m == Len(peer.peerName)
            d == Min(6, Len(peer.peerId))
        IN  /\ Len(f) = n + 1 + m + 1 + d + 4
            /\ SubSeq(f, 1, n) = sessionName
            /\ f[n + 1] = "_"
            /\ \A j \in 1..m :
                  f[n + 1 + j] = IF peer.peerName[j] \in Letters \cup Digits
                                 THEN peer.peerName[j] ELSE "_"
            /\ f[n + m + 2] = "_"
            /\ \A j \in 1..d : f[n + m + 2 + j] = peer.peerId[j]
            /\ SubSeq(f, n + m + d + 3, Len(f)) = <<".", "w", "a", "v">>

\* The guest "Al 7" with the id aB3defgh, session "s1": s1_Al_7_aB3def.wav
C22_Witness ==
    /\ sessionName = <<"s", "1">>
    /\ \E i \in 1..Len(filesWritten) :
          /\ saveTracks[filesWritten[i].track].peer.peerName = <<"A", "l", " ", "7">>
          /\ filesWritten[i].name = <<"s", "1", "_", "A", "l", "_", "7", "_",
                                      "a", "B", "3", "d", "e", "f", ".", "w", "a", "v">>

----------------------------------------------------------------------------
(* audioBufferToWav (audio-recorder.ts): a 44-byte header and the samples    *)
(* as little-endian signed 16-bit integers, written at increasing offsets    *)
(* into an ArrayBuffer of buffer.length * numChannels * 2 + 44 bytes.         *)
(* A float sample is counted in quarters: 4 is 1.0, -3 is -0.75, 8 is 2.0.   *)

MaxChannels == 2
MaxFrames == 2

SampleUnit == 2 * 2
SampleValues == {-8, -3, 3, 8}
SampleRates == {8000, 44100}

WavBuffers ==
    UNION {[sampleRate : SampleRates, numberOfChannels : {c}, length : {f},
            channels : [1..c -> [1..f -> SampleValues]]] :
               c \in 1..MaxChannels, f \in 0..MaxFrames}

\* s.charCodeAt(i) for the characters of the four tags.
CharCode(c) ==
    CASE c = "R" -> 82 [] c = "I" -> 73 [] c = "F" -> 70 [] c = "W" -> 87 [] c = "A" -> 65
      [] c = "V" -> 86 [] c = "E" -> 69 [] c = "f" -> 102 [] c = "m" -> 109 [] c = "t" -> 116
      [] c = " " -> 32 [] c = "d" -> 100 [] c = "a" -> 97

\* writeString(s): one byte per character.
WriteString(chars) == [i \in 1..Len(chars) |-> CharCode(chars[i])]

\* view.setUint32(offset, v, true) and view.setUint16(offset, v, true): the
\* value modulo 2^32 or 2^16, least significant byte first.
Uint32LE(v) == <<v % 256, (v \div 256) % 256, (v \div 65536) % 256, (v \div 16777216) % 256>>
Uint16LE(v) == <<v % 256, (v \div 256) % 256>>

\* A number that is num / den, truncated towards zero.
Trunc(num, den) == IF num >= 0 THEN num \div den ELSE 0 - ((0 - num) \div den)

\* view.setInt16(offset, x, true) for x = num / den: truncated, taken modulo
\* 2^16, least significant byte first.
Int16LE(num, den) == Uint16LE(Trunc(num, den) % 65536)

\* Math.max(-1, Math.min(1, x))
Clamp(x) == Max(0 - SampleUnit, Min(SampleUnit, x))

\* sample < 0 ? sample * 0x8000 : sample * 0x7FFF, times SampleUnit
Scale(sample) == IF sample < 0 THEN sample * 32768 ELSE sample * 32767

\* An order that writes channel after channel.
SampleOffset_planar(i, ch, numChannels, length) == 44 + 2 * (ch * length + i)

\* The offset at which the loops write frame i of channel ch (both from 0):
\* frames in the outer loop, channels in the inner one, two bytes each.
SampleOffset(i, ch, numChannels, length) == 44 + 2 * (i * numChannels + ch)

\* The 44 bytes written before the samples.
WavHeader(buffer) ==
    LET numChannels == buffer.numberOfChannels
        length == buffer.length * numChannels * 2 + 44
    IN  WriteString(<<"R", "I", "F", "F">>)
        \o Uint32LE(length - 8)
        \o WriteString(<<"W", "A", "V", "E">>)
        \o WriteString(<<"f", "m", "t", " ">>)
        \o Uint32LE(16)
        \o Uint16LE(1)
        \o Uint16LE(numChannels)
        \o Uint32LE(buffer.sampleRate)
        \o Uint32LE(buffer.sampleRate * 2 * numChannels)
        \o Uint16LE(numChannels * 2)
        \o Uint16LE(16)
        \o WriteString(<<"d", "a", "t", "a">>)
        \o Uint32LE(length - 40 - 4)

\* The ArrayBuffer returned, as the sequence of its bytes: zero where nothing
\* was written.
WavBytes(buffer) ==
    LET numChannels == buffer.numberOfChannels
        length == buffer.length * numChannels * 2 + 44
        header == WavHeader(buffer)
        writes == {<<i, ch>> \in (0..(buffer.length - 1)) \X (0..(numChannels - 1)) : TRUE}
        at(o) == {w \in writes :
                     SampleOffset(w[1], w[2], numChannels, buffer.length) \in {o, o - 1}}
    IN  [b \in 1..length |->
            LET o == b - 1
            IN  IF o < 44 THEN header[b]
                ELSE IF at(o) = {} THEN 0
                ELSE LET w == CHOOSE w \in at(o) : TRUE
                         bytes == Int16LE(Scale(Clamp(buffer.channels[w[2] + 1][w[1] + 1])),
                                          SampleUnit)
                     IN  bytes[o - SampleOffset(w[1], w[2], numChannels, buffer.length) + 1]]

WavInit ==
    /\ RecorderInit /\ DeadAirIdle /\ ExportIdle /\ SaveIdle /\ ScanIdle
    /\ wavBuffer \in WavBuffers
    /\ wavBytes = <<>>
    /\ wavPc = "idle"

audioBufferToWav ==
    /\ wavPc = "idle"
    /\ wavBytes' = WavBytes(wavBuffer)
    /\ wavPc' = "done"
    /\ UNCHANGED wavBuffer
    /\ UNCHANGED <<recorderVars, deadAirVars, exportVars, saveVars, scanVars>>

WavNext == audioBufferToWav

WavSpec == WavInit /\ [][WavNext]_vars

\* Reading the file back as a WAV decoder does (offsets from 0).
ReadUint16(bytes, o) == bytes[o + 1] + 256 * bytes[o + 2]
ReadUint32(bytes, o) == ReadUint16(bytes, o) + 65536 * ReadUint16(bytes, o + 2)
ReadInt16(bytes, o) ==
    LET u == ReadUint16(bytes, o) IN IF u >= 32768 THEN u - 65536 ELSE u
ReadTag(bytes, o) == SubSeq(bytes, o + 1, o + 4)

\* Sample s of the file (from 0) is frame s \div C of channel s % C.
FileSample(bytes, s) == ReadInt16(bytes, 44 + 2 * s)

Abs(x) == IF x < 0 THEN 0 - x ELSE x

Encoded == wavPc = "done"

\* C23: audioBufferToWav, for a buffer of F frames and C channels, returns
\* exactly 44 + 2*F*C bytes: the tags RIFF, WAVE, "fmt " and data in their
\* places, the RIFF size total - 8, a fmt chunk of size 16 saying PCM (1), C
\* channels, the sample rate, byte rate rate*2*C, block align 2*C and 16
\* bits, the data size 2*F*C, and then F*C little-endian samples, sample
\* i*C + ch being frame i of channel ch: a signed 16-bit value within two
\* quantisation steps of the source sample clamped to [-1, 1].
C23_WavLayout ==
    Encoded =>
        LET F == wavBuffer.length
            C == wavBuffer.numberOfChannels
            rate == wavBuffer.sampleRate
            total == Len(wavBytes)
        IN  /\ total = 44 + 2 * F * C
            /\ \A b \in 1..total : wavBytes[b] \in 0..255
            /\ ReadTag(wavBytes, 0) = <<82, 73, 70, 70>>
            /\ ReadUint32(wavBytes, 4) = total - 8
            /\ ReadTag(wavBytes, 8) = <<87, 65, 86, 69>>
            /\ ReadTag(wavBytes, 12) = <<102, 109, 116, 32>>
            /\ ReadUint32(wavBytes, 16) = 16
            /\ ReadUint16(wavBytes, 20) = 1
            /\ ReadUint16(wavBytes, 22) = C
            /\ ReadUint32(wavBytes, 24) = rate
            /\ ReadUint32(wavBytes, 28) = rate * 2 * C
            /\ ReadUint16(wavBytes, 32) = 2 * C
            /\ ReadUint16(wavBytes, 34) = 16
            /\ ReadTag(wavBytes, 36) = <<100, 97, 116, 97>>
            /\ ReadUint32(wavBytes, 40) = 2 * F * C
            /\ \A i \in 0..(F - 1) : \A ch \in 0..(C - 1) :
                  LET v == FileSample(wavBytes, i * C + ch)
                      source == Clamp(wavBuffer.channels[ch + 1][i + 1])
                  IN  /\ v \in (0 - 32768)..32767
                      /\ Abs(SampleUnit * v - 32768 * source) <= 2 * SampleUnit

\* A stereo buffer of two frames whose channels differ, with a sample over
\* full scale, has been encoded.
C23_Witness ==
    /\ Encoded
    /\ wavBuffer.numberOfChannels = 2 /\ wavBuffer.length = 2
    /\ wavBuffer.channels = <<<<8, 0 - 3>>, <<3, 0 - 8>>>>
    /\ FileSample(wavBytes, 0) = 32767
    /\ FileSample(wavBytes, 1) = 24575
    /\ FileSample(wavBytes, 2) = 0 - 24576
    /\ FileSample(wavBytes, 3) = 0 - 32768

----------------------------------------------------------------------------
(* Further properties of the dead-air library, over the decoded tracks of    *)
(* DeadAirSpec.                                                               *)

\* The time t (and the tick that starts at it) lies in an interval of the list.
Covers(regions, t) == \E x \in 1..Len(regions) : regions[x].start <= t /\ t < regions[x].end

\* Every interval has start < end.
Proper(regions) == \A x \in 1..Len(regions) : regions[x].start < regions[x].end

\* The times at which a block of the longest buffer starts, at the fine rate:
\* every interval of a report starts and ends at one of them.
Ticks == {TimeSec(t * BlockSize, FineRate) : t \in 0..Max(3 * MaxSamples, MaxFineSamples)}

\* C24: for the silence reports of any two decoded tracks (sorted lists of
\* disjoint intervals), intersectRegions returns a sorted list of disjoint
\* intervals, each with start < end, that covers a time exactly when both
\* reports cover it: nothing outside the common silence, and none of it missed.
C24_ExactIntersection ==
    \A j, k \in 1..Len(buffers) :
        LET a == Report(j)
            b == Report(k)
            common == intersectRegions(a, b)
        IN  /\ SortedDisjoint(a) /\ SortedDisjoint(b)
            /\ SortedDisjoint(common)
            /\ Proper(common)
            /\ \A t \in Ticks : Covers(common, t) <=> (Covers(a, t) /\ Covers(b, t))

\* Two tracks whose silences touch and overlap: one silent in its first and
\* third windows, the other silent from the second window on.
C24_Witness ==
    /\ daPc = "returned"
    /\ Len(buffers) >= 2
    /\ Report(1) = <<Region(0, 6), Region(12, 18)>>
    /\ Report(2) = <<Region(6, 18)>>
    /\ intersectRegions(Report(1), Report(2)) = <<Region(12, 18)>>

\* C25: for every decoded buffer and every choice of options, the silence
\* intervals reported by detectSilence are sorted by start, pairwise disjoint,
\* each with start < end, and all within [0, duration of the buffer].
C25_SilenceWellFormed ==
    \A k \in 1..Len(buffers) :
        /\ SortedDisjoint(Report(k))
        /\ Proper(Report(k))
        /\ \A x \in 1..Len(Report(k)) :
              0 <= Report(k)[x].start /\ Report(k)[x].end <= Duration(buffers[k])

\* A track of 7 blocks at 48 kHz, whose last window is partial: after a loud
\* window, a trailing silence that ends with the buffer, not with the window.
C25_Witness ==
    /\ daPc = "returned"
    /\ Len(buffers) >= 1
    /\ buffers[1] = AudioBuffer(FineRate, <<3, 3, 0, 0, 0, 0, 0>>)
    /\ daOptions.minSilenceDuration = 6
    /\ Report(1) = <<Region(6, 14)>>

\* The k-th thing the handler told the playlist is a selection; its range.
IsSelect(k) == calls[k][1] = "select"
Selected(k) == Region(calls[k][2], calls[k][3])

\* C26: when the dead-air plan is applied, the handler selects one region of
\* the plan and trims at once, then the next: every selection is followed by
\* one trim() before the next selection, every region selected is the latest
\* of the plan not selected yet, it starts before and ends no later than the
\* start of every region selected before it, so that no cut is made at a time
\* that an earlier cut has shifted, and when the handler has ended every
\* region of the plan has been selected and trimmed once.
C26_LatestFirst ==
    /\ \A k \in 1..Len(calls) :
          IF k % 2 = 1
          THEN /\ IsSelect(k)
               /\ Selected(k) \in Range(deadAirRegions)
               /\ \A j \in 1..(k - 1) :
                     IsSelect(j) => /\ Selected(k).start < Selected(j).start
                                    /\ Selected(k).end <= Selected(j).start
               /\ \A r \in Range(deadAirRegions) :
                     r.start > Selected(k).start =>
                         \E j \in 1..(k - 1) : IsSelect(j) /\ Selected(j) = r
          ELSE calls[k] = CallTrim
    /\ (daPc = "selected") <=> (Len(calls) % 2 = 1)
    /\ (daPc = "done" /\ alertMsg = "removed") =>
          /\ Len(calls) = 2 * Len(deadAirRegions)
          /\ \A r \in Range(deadAirRegions) :
                \E k \in 1..Len(calls) : IsSelect(k) /\ Selected(k) = r

\* One track with 1.5 s of silence, 0.1 s of speech and 1.5 s of silence: the
\* later region has been selected and trimmed, then the earlier one.
C26_Witness ==
    /\ daPc = "done"
    /\ deadAirRegions = <<Region(0, 180), Region(192, 372)>>
    /\ calls = <<EmitSelect(Region(192, 372)), CallTrim,
                 EmitSelect(Region(0, 180)), CallTrim>>

----------------------------------------------------------------------------
\* C27: if stopRecording is invoked a second time on the same recorders while
\* the first invocation is still waiting for stop events, then once the stop
\* event of every recorder has fired (and none was started again), both
\* promises are resolved and each map gives every recorder a blob with all the
\* bytes delivered up to that recorder's stop event.
C27_DoubleStop ==
    \A p, q \in Invoked :
        (/\ p < q
         /\ recs[p] = recs[q]
         /\ recs[p] # <<>>
         /\ p \notin resolvedAt[q]
         /\ \A r \in Range(recs[p]) : stopQueued[r] = 0 /\ ~restarted[r])
        => \A x \in {p, q} :
              /\ resolved[x]
              /\ \A r \in Range(recs[p]) :
                    /\ r \in DOMAIN results[x]
                    /\ results[x][r] = DeliveredBytes(r, Len(delivered[r]))

----------------------------------------------------------------------------
\* The keep regions of the k-th decoded buffer.
Keep(k) == detectSilence(buffers[k], daOptions).keepRegions

\* C28: for every decoded buffer and every choice of options, the keepRegions
\* of detectSilence are sorted, pairwise disjoint, each with start < end, and
\* within [0, duration of the buffer]: no part of the audio is kept twice.
C28_KeepWellFormed ==
    \A k \in 1..Len(buffers) :
        /\ SortedDisjoint(Keep(k))
        /\ Proper(Keep(k))
        /\ \A x \in 1..Len(Keep(k)) :
              0 <= Keep(k)[x].start /\ Keep(k)[x].end <= Duration(buffers[k])

----------------------------------------------------------------------------
\* What detectDeadAirAcrossTracks returns for the tracks decoded so far.
Plan == detectDeadAirAcrossTracks(buffers, daOptions)

Lasts(region) == region.end - region.start

\* The region lies within the other one.
Inside(region, other) == other.start <= region.start /\ region.end <= other.end

\* C29 as stated: every region returned by detectDeadAirAcrossTracks lasts at
\* least minSilenceDuration.
C29_PlanLongEnough ==
    \A x \in 1..Len(Plan) : Lasts(Plan[x]) >= daOptions.minSilenceDuration

\* C29, amended: every region returned by detectDeadAirAcrossTracks is not
\* empty and lies, for every track, inside one interval of that track's
\* silence report, which lasts at least minSilenceDuration; with a single
\* track the returned region itself lasts at least minSilenceDuration.
C29_InsideLongSilences ==
    \A x \in 1..Len(Plan) :
        /\ Lasts(Plan[x]) > 0
        /\ \A k \in 1..Len(buffers) :
              \E y \in 1..Len(Report(k)) :
                  /\ Inside(Plan[x], Report(k)[y])
                  /\ Lasts(Report(k)[y]) >= daOptions.minSilenceDuration
        /\ Len(buffers) = 1 => Lasts(Plan[x]) >= daOptions.minSilenceDuration

\* Two tracks, each silent for 0.1 s with a minimum of 0.075 s, overlapping
\* for 0.05 s: the plan holds a region shorter than the minimum.
C29_Witness ==
    /\ daPc = "returned"
    /\ Len(buffers) = 2
    /\ daOptions.minSilenceDuration = 9
    /\ Report(1) = <<Region(0, 12)>>
    /\ Report(2) = <<Region(6, 18)>>
    /\ Plan = <<Region(6, 12)>>

----------------------------------------------------------------------------
(* The window loop of detectSilence, one iteration per step, on buffers of   *)
(* 8, 16 and 48 kHz: at 8 kHz a window is half a block.                      *)

PhoneRate == CoarseRate \div 2
ScanRates == {PhoneRate, CoarseRate, FineRate}
ScanBuffers == {AudioBuffer(rate, d) : rate \in ScanRates, d \in SamplesUpTo(MaxFineSamples)}

\* The iterations the model follows: one more than the longest buffer needs
\* with a window of half a block.
MaxIter == 2 * MaxFineSamples + 1

ScanInit ==
    /\ RecorderInit /\ DeadAirIdle /\ ExportIdle /\ SaveIdle /\ WavIdle
    /\ scanBuffer \in ScanBuffers
    /\ scanOptions \in OptionSets
    /\ scanI = 0
    /\ scanStart = <<>>
    /\ scanRegions = <<>>
    /\ scanReads = <<>>
    /\ scanIter = 0
    /\ scanPc = "loop"

\* One iteration of for (let i = 0; i < channelData.length; i += windowSize).
ScanWindow ==
    LET data == scanBuffer.data
        windowSize == WindowSize(scanBuffer.sampleRate)
        end == Min(scanI + windowSize, Length(data))
        timeSec == TimeSec(scanI, scanBuffer.sampleRate)
    IN  /\ scanPc = "loop"
        /\ scanI < Length(data)
        /\ scanIter < MaxIter
        /\ scanReads' = Append(scanReads, <<scanI, end>>)
        /\ IF IsQuiet(data, scanI, end, scanOptions.silenceThreshold)
           THEN /\ scanStart' = IF scanStart = <<>> THEN <<timeSec>> ELSE scanStart
                /\ UNCHANGED scanRegions
           ELSE /\ scanStart' = <<>>
                /\ scanRegions' =
                      IF /\ scanStart # <<>>
                         /\ LongEnough(scanStart[1], timeSec, scanOptions.minSilenceDuration)
                      THEN Append(scanRegions, Region(scanStart[1], timeSec))
                      ELSE scanRegions
        /\ scanI' = scanI + windowSize
        /\ scanIter' = scanIter + 1
        /\ UNCHANGED <<scanBuffer, scanOptions, scanPc>>
        /\ UNCHANGED <<recorderVars, deadAirVars, exportVars, saveVars, wavVars>>

\* The loop has ended: the trailing silence, if long enough, is reported.
ScanTrailing ==
    LET endTime == EndTime(scanBuffer)
    IN  /\ scanPc = "loop"
        /\ scanI >= Length(scanBuffer.data)
        /\ scanRegions' =
              IF /\ scanStart # <<>>
                 /\ LongEnough(scanStart[1], endTime, scanOptions.minSilenceDuration)
              THEN Append(scanRegions, Region(scanStart[1], endTime))
              ELSE scanRegions
        /\ scanPc' = "done"
        /\ UNCHANGED <<scanBuffer, scanOptions, scanI, scanStart, scanReads, scanIter>>
        /\ UNCHANGED <<recorderVars, deadAirVars, exportVars, saveVars, wavVars>>

ScanNext == ScanWindow \/ ScanTrailing

\* The call runs to its end unless the loop cannot end.
ScanSpec == ScanInit /\ [][ScanNext]_vars /\ WF_vars(ScanNext)

\* The ranges read so far follow one another from sample 0 on, none of them
\* empty: every sample before the scan index has been read exactly once, and
\* none after it.
ReadOnceUpTo(n) ==
    /\ \A k \in 1..Len(scanReads) :
          /\ scanReads[k][1] = (IF k = 1 THEN 0 ELSE scanReads[k - 1][2])
          /\ scanReads[k][1] < scanReads[k][2]
    /\ n = (IF scanReads = <<>> THEN 0 ELSE scanReads[Len(scanReads)][2])

\* C30: for every buffer, detectSilence terminates: every iteration of its
\* window loop moves the scan index strictly forward, and when the loop has
\* ended every sample of the buffer has been read exactly once; the call then
\* returns the silence regions of that one pass.
C30_ScanAdvances ==
    /\ [][scanIter' > scanIter => scanI' > scanI]_vars
    /\ [](ReadOnceUpTo(Min(scanI, Length(scanBuffer.data))))
    /\ [](scanPc = "done" => scanRegions = SilenceRegions(scanBuffer, scanOptions))
    /\ <>(scanPc = "done")

\* A 48 kHz buffer of a window and a third: the loop has read the whole
\* window, then the 800 samples that are left, and the call has returned.
C30_Witness ==
    /\ scanPc = "done"
    /\ scanBuffer = AudioBuffer(FineRate, <<3, 3, 3, 0>>)
    /\ scanReads = <<<<0, 2400>>, <<2400, 3200>>>>
    /\ scanI = 4800

====
